---- MODULE Spec2Model ----
(***************************************************************************)
(* ReDraft: message refinement extension.                                  *)
(* Texts are sequences of one-character strings; the regular expressions   *)
(* of src/index.js are modelled character by character.                    *)
(***************************************************************************)
EXTENDS Integers, Sequences, FiniteSets, TLC

(***************************************************************************)
(* Bounds                                                                  *)
(***************************************************************************)
MaxFrags == 4
MaxDiffLen == 3
MaxParseFrags == 4
MaxTimers == 1
MaxPovFrags == 7
MaxCustomRules == 2
CellSpread == 3
MaxMessages == 2
MaxInFlight == 2

(***************************************************************************)
(* Characters and character classes                                        *)
(***************************************************************************)
UpperSeq == <<"A","B","C","D","E","F","G","H","I","J","K","L","M",
              "N","O","P","Q","R","S","T","U","V","W","X","Y","Z">>
LowerSeq == <<"a","b","c","d","e","f","g","h","i","j","k","l","m",
              "n","o","p","q","r","s","t","u","v","w","x","y","z">>
DigitSeq == <<"0","1","2","3","4","5","6","7","8","9">>

UpperSet == {UpperSeq[i] : i \in 1..26}
LowerSet == {LowerSeq[i] : i \in 1..26}
DigitSet == {DigitSeq[i] : i \in 1..10}

IsSpace(c) == c \in {" ", "\n", "\t", "\r"}
IsLetter(c) == c \in UpperSet \cup LowerSet
IsDigit(c) == c \in DigitSet
IsWord(c) == IsLetter(c) \/ IsDigit(c) \/ c = "_"

UpperOf == [c \in LowerSet |-> UpperSeq[CHOOSE i \in 1..26 : LowerSeq[i] = c]]
LowerOf == [c \in UpperSet |-> LowerSeq[CHOOSE i \in 1..26 : UpperSeq[i] = c]]

ToUpper(c) == IF c \in LowerSet THEN UpperOf[c] ELSE c
ToLower(c) == IF c \in UpperSet THEN LowerOf[c] ELSE c

UpperStr(s) == [k \in 1..Len(s) |-> ToUpper(s[k])]
LowerStr(s) == [k \in 1..Len(s) |-> ToLower(s[k])]

(***************************************************************************)
(* String primitives                                                       *)
(***************************************************************************)
Min(S) == CHOOSE x \in S : \A y \in S : x <= y
Max(S) == CHOOSE x \in S : \A y \in S : x >= y
MinOr0(S) == IF S = {} THEN 0 ELSE Min(S)

\* lit occurs in s at position p (1-based), compared exactly
MatchAt(lit, s, p) ==
    /\ p >= 1
    /\ p + Len(lit) - 1 <= Len(s)
    /\ \A k \in 1..Len(lit) : s[p + k - 1] = lit[k]

\* lit occurs in s at position p, compared without regard to letter case
MatchAtCI(lit, s, p) ==
    /\ p >= 1
    /\ p + Len(lit) - 1 <= Len(s)
    /\ \A k \in 1..Len(lit) : ToUpper(s[p + k - 1]) = ToUpper(lit[k])

\* first position >= from where lit occurs, 0 when there is none
IndexOf(lit, s, from) ==
    MinOr0({p \in from..(Len(s) - Len(lit) + 1) : MatchAt(lit, s, p)})

IndexOfCI(lit, s, from) ==
    MinOr0({p \in from..(Len(s) - Len(lit) + 1) : MatchAtCI(lit, s, p)})

\* index of the last character of an n-character match found at q (0: none)
EndOf(q, n) == IF q = 0 THEN 0 ELSE q + n - 1

\* String.prototype.includes
Includes(s, lit) == IndexOf(lit, s, 1) # 0

\* s from its first to its last character of keep, empty when keep is empty
Span(s, keep) == IF keep = {} THEN <<>> ELSE SubSeq(s, Min(keep), Max(keep))

\* String.prototype.trim
Trim(s) == Span(s, {k \in 1..Len(s) : ~IsSpace(s[k])})

RECURSIVE Concat(_)
Concat(ss) == IF ss = <<>> THEN <<>> ELSE Head(ss) \o Concat(Tail(ss))

\* decimal digits of a natural number, as template literals print it
RECURSIVE ToDigits(_)
ToDigits(n) ==
    IF n < 10 THEN <<DigitSeq[n + 1]>>
    ELSE ToDigits(n \div 10) \o <<DigitSeq[(n % 10) + 1]>>

DigitVal(c) == (CHOOSE i \in 1..10 : DigitSeq[i] = c) - 1

\* parseInt(digits, 10) for a run of decimal digits
RECURSIVE ParseInt(_)
ParseInt(ds) ==
    IF ds = <<>> THEN 0
    ELSE 10 * ParseInt(SubSeq(ds, 1, Len(ds) - 1)) + DigitVal(ds[Len(ds)])

(***************************************************************************)
(* ContentProtector                                                        *)
(***************************************************************************)
PROTECTED_PREFIX == <<"[","P","R","O","T","E","C","T","E","D","_">>

\* the template literal [PROTECTED_${k}]
Placeholder(k) == PROTECTED_PREFIX \o ToDigits(k) \o <<"]">>

\* the backtick character (a string literal cannot hold it)
BACKTICK == "backtick"

FENCE == <<BACKTICK, BACKTICK, BACKTICK>>

\* pass 1: a fence, lazily anything, a fence, anchored at p;
\* index of the last matched character, 0 if none
FenceMatchEnd(s, p) ==
    IF ~MatchAt(FENCE, s, p) THEN 0 ELSE EndOf(IndexOf(FENCE, s, p + 3), 3)

blockTags == { <<"d","e","t","a","i","l","s">>, <<"d","i","v">>,
               <<"t","a","b","l","e">>, <<"s","e","c","t","i","o","n">>,
               <<"a","s","i","d","e">>, <<"a","r","t","i","c","l","e">>,
               <<"n","a","v">>, <<"p","r","e">>,
               <<"f","i","e","l","d","s","e","t">>, <<"f","i","g","u","r","e">> }

\* \w+[-_]\w[\w-]* matches the whole of name
IsCustomTagName(name) ==
    \E w \in 1..(Len(name) - 2) :
        /\ \A k \in 1..w : IsWord(name[k])
        /\ name[w + 1] \in {"-", "_"}
        /\ IsWord(name[w + 2])
        /\ \A k \in (w + 3)..Len(name) : IsWord(name[k]) \/ name[k] = "-"

\* \b between s[e] and s[e+1]
WordBoundaryAfter(s, e) ==
    (e >= 1 /\ IsWord(s[e])) # (e + 1 <= Len(s) /\ IsWord(s[e + 1]))

\* [\s\S]*? and then the closing tag, from position from on
ClosingEnd(closing, s, from) == EndOf(IndexOfCI(closing, s, from), Len(closing))

\* >[\s\S]*?<\/\1> once [^>]* has run up to the first > (at gt, 0: none)
BlockCloseAfter(s, name, gt) ==
    IF gt = 0 THEN 0 ELSE ClosingEnd(<<"<", "/">> \o name \o <<">">>, s, gt + 1)

\* With the tag name s[p+1..e]: (\b[^>]*)>[\s\S]*?<\/\1> from e+1 on.
\* Index of the last matched character, 0 if this name does not match.
BlockCloseEnd(s, p, e) ==
    IF e = 0 \/ ~WordBoundaryAfter(s, e) THEN 0
    ELSE BlockCloseAfter(s, SubSeq(s, p + 1, e), IndexOf(<<">">>, s, e + 1))

\* the alternatives of group 1 in the order the engine tries them: a reserved
\* tag name first, then the custom name from its longest extent down
PreferredEnd(reservedEnds, customEnds) ==
    IF reservedEnds # {} THEN Min(reservedEnds)
    ELSE IF customEnds # {} THEN Max(customEnds)
    ELSE 0

\* blockRegex anchored at p: index of the last matched character, 0 if none
BlockMatchEnd(s, p) ==
    IF s[p] # "<" THEN 0
    ELSE BlockCloseEnd(s, p,
            PreferredEnd({e \in (p + 1)..Len(s) :
                             /\ LowerStr(SubSeq(s, p + 1, e)) \in blockTags
                             /\ BlockCloseEnd(s, p, e) # 0},
                         {e \in (p + 1)..Len(s) :
                             /\ IsCustomTagName(SubSeq(s, p + 1, e))
                             /\ BlockCloseEnd(s, p, e) # 0}))

\* [A-Z_] under the i flag
IsTagChar(c) == IsLetter(c) \/ c = "_"

\* the name between s[p] and the first character at e that cannot continue it
TagBefore(s, p, e) ==
    IF e = 0 \/ e = p + 1 \/ s[e] # "]" THEN <<>> ELSE SubSeq(s, p + 1, e - 1)

\* the tag name captured by \[([A-Z_]+)\] anchored at p, <<>> if no match
BracketTagAt(s, p) ==
    IF s[p] # "[" THEN <<>>
    ELSE TagBefore(s, p, MinOr0({e \in (p + 1)..Len(s) : ~IsTagChar(s[e])}))

\* [\s\S]*?\[\/\1\] after the opening tag
BracketCloseEnd(s, p, tag) ==
    IF tag = <<>> THEN 0
    ELSE ClosingEnd(<<"[", "/">> \o tag \o <<"]">>, s, p + Len(tag) + 2)

\* /\[([A-Z_]+)\][\s\S]*?\[\/\1\]/i anchored at p: index of the last matched
\* character, 0 if none
BracketMatchEnd(s, p) == BracketCloseEnd(s, p, BracketTagAt(s, p))

CHANGELOG_NAME == <<"C","H","A","N","G","E","L","O","G">>
REFINED_NAME == <<"R","E","F","I","N","E","D">>
PROTECTED_NAME == <<"P","R","O","T","E","C","T","E","D">>

\* the callback of pass 3: TRUE when the match is returned unchanged
BracketSkipped(tag) ==
    \/ UpperStr(tag) = CHANGELOG_NAME
    \/ MatchAt(PROTECTED_NAME, UpperStr(tag), 1)

\* the regular expression of a pass, anchored at p
PassMatchEnd(pass, s, p) ==
    CASE pass = 1 -> FenceMatchEnd(s, p)
      [] pass = 2 -> BlockMatchEnd(s, p)
      [] pass = 3 -> BracketMatchEnd(s, p)

\* String.prototype.replace with the global regular expression of a pass and
\* its callback, which pushes the match and returns its placeholder: acc is
\* [stripped, blocks] built so far, from the scan position, p..e the match.
RECURSIVE ReplacePass(_, _, _, _)

\* the callback with a skipped match of pass 3 pushed onto the list all the same
ReplaceMatch_SkipTakesIndex(pass, s, from, acc, p, e) ==
    IF pass = 3 /\ BracketSkipped(BracketTagAt(s, p))
    THEN ReplacePass(pass, s, e + 1,
             [stripped |-> acc.stripped \o SubSeq(s, from, e),
              blocks |-> Append(acc.blocks, SubSeq(s, p, e))])
    ELSE ReplacePass(pass, s, e + 1,
             [stripped |-> acc.stripped \o SubSeq(s, from, p - 1)
                               \o Placeholder(Len(acc.blocks)),
              blocks |-> Append(acc.blocks, SubSeq(s, p, e))])

ReplaceMatch(pass, s, from, acc, p, e) ==
    IF pass = 3 /\ BracketSkipped(BracketTagAt(s, p))
    THEN ReplacePass(pass, s, e + 1,
             [stripped |-> acc.stripped \o SubSeq(s, from, e), blocks |-> acc.blocks])
    ELSE ReplacePass(pass, s, e + 1,
             [stripped |-> acc.stripped \o SubSeq(s, from, p - 1)
                               \o Placeholder(Len(acc.blocks)),
              blocks |-> Append(acc.blocks, SubSeq(s, p, e))])

ReplaceFirstOf(pass, s, from, acc, p) ==
    IF p = 0
    THEN [stripped |-> acc.stripped \o SubSeq(s, from, Len(s)), blocks |-> acc.blocks]
    ELSE ReplaceMatch(pass, s, from, acc, p, PassMatchEnd(pass, s, p))

ReplacePass(pass, s, from, acc) ==
    ReplaceFirstOf(pass, s, from, acc,
        MinOr0({p \in from..Len(s) : PassMatchEnd(pass, s, p) # 0}))

\* one pass over the output of the pass before; the block list carries on
StripPass(pass, prev) ==
    ReplacePass(pass, prev.stripped, 1, [stripped |-> <<>>, blocks |-> prev.blocks])

stripProtectedBlocks(t) ==
    StripPass(3, StripPass(2, StripPass(1, [stripped |-> t, blocks |-> <<>>])))

\* the digits of /\[PROTECTED_(\d+)\]/ end before e
PlaceholderEndAt(s, d0, e) == IF e = 0 \/ e = d0 \/ s[e] # "]" THEN 0 ELSE e

\* /\[PROTECTED_(\d+)\]/ anchored at p: index of the closing bracket, 0 if none
PlaceholderMatchEnd(s, p) ==
    IF ~MatchAt(PROTECTED_PREFIX, s, p) THEN 0
    ELSE PlaceholderEndAt(s, p + 11, MinOr0({e \in (p + 11)..Len(s) : ~IsDigit(s[e])}))

\* blocks[parseInt(idx, 10)], the empty string when that is undefined
BlockOrEmpty(blks, idx) ==
    IF idx + 1 \in 1..Len(blks) THEN blks[idx + 1] ELSE <<>>

\* text.replace(/\[PROTECTED_(\d+)\]/g, ...) from the scan position on
RECURSIVE ReplacePlaceholders(_, _, _, _)
ReplacePlaceholderAt(s, blks, from, acc, p, e) ==
    ReplacePlaceholders(s, blks, e + 1,
        acc \o SubSeq(s, from, p - 1)
            \o BlockOrEmpty(blks, ParseInt(SubSeq(s, p + 11, e - 1))))

ReplaceFirstPlaceholder(s, blks, from, acc, p) ==
    IF p = 0 THEN acc \o SubSeq(s, from, Len(s))
    ELSE ReplacePlaceholderAt(s, blks, from, acc, p, PlaceholderMatchEnd(s, p))

ReplacePlaceholders(s, blks, from, acc) ==
    ReplaceFirstPlaceholder(s, blks, from, acc,
        MinOr0({p \in from..Len(s) : PlaceholderMatchEnd(s, p) # 0}))

\* the safety net loop, from block i (0-based) on
RECURSIVE AppendMissing(_, _, _, _)
AppendMissing(t, blks, i, result) ==
    IF i >= Len(blks) THEN result
    ELSE AppendMissing(t, blks, i + 1,
             IF ~Includes(t, Placeholder(i))
             THEN result \o <<"\n">> \o blks[i + 1]
             ELSE result)

\* restoreProtectedBlocks without its safety net loop
restoreProtectedBlocks_NoSafetyNet(t, blks) ==
    ReplacePlaceholders(t, blks, 1, <<>>)

restoreProtectedBlocks(t, blks) ==
    AppendMissing(t, blks, 0, ReplacePlaceholders(t, blks, 1, <<>>))

(***************************************************************************)
(* ResponseParser                                                          *)
(***************************************************************************)
OpenTag(name) == <<"[">> \o name \o <<"]">>
CloseTag(name) == <<"[", "/">> \o name \o <<"]">>

\* a value that may be null or undefined, or a string
Null == [isNull |-> TRUE, text |-> <<>>]
Str(t) == [isNull |-> FALSE, text |-> t]

\* position of the closing tag the lazy group stops at, the opening tag being
\* at p (0: the opening tag is not there)
CloseAfter(s, name, p) ==
    IF p = 0 THEN 0 ELSE IndexOfCI(CloseTag(name), s, p + Len(name) + 2)

\* /\[NAME\]\s*([\s\S]*?)\s*\[\/NAME\]/i: position of the closing tag of the
\* first match, 0 if the expression does not match
PairClose(s, name) == CloseAfter(s, name, IndexOfCI(OpenTag(name), s, 1))

\* group 1 of that match: what lies between the tags, less the white space
\* the two \s* take
PairGroup(s, name) ==
    Trim(SubSeq(s, IndexOfCI(OpenTag(name), s, 1) + Len(name) + 2, PairClose(s, name) - 1))

\* the substring taken from the start of the match, not from behind it
AfterPair_FromMatchStart(s, name) == SubSeq(s, IndexOfCI(OpenTag(name), s, 1), Len(s))

\* responseText.substring(match.index + match[0].length)
AfterPair(s, name) == SubSeq(s, PairClose(s, name) + Len(name) + 3, Len(s))

\* the text from the first character that is not white space at or after from
SkipSpace(s, from) ==
    SubSeq(s, Min({k \in from..(Len(s) + 1) : k = Len(s) + 1 \/ ~IsSpace(s[k])}), Len(s))

\* the group taken right after the opening tag, its white space not skipped
UnclosedGroup_KeepSpace(s, p) == SubSeq(s, p + Len(CHANGELOG_NAME) + 2, Len(s))

\* group 1 of /\[CHANGELOG\]\s*([\s\S]*?)$/i, the opening tag being at p
UnclosedGroup(s, p) == SkipSpace(s, p + Len(CHANGELOG_NAME) + 2)

\* remainder.search(/\n\s*\n/), as a 1-based position, 0 if there is no match
BlankLineAt(s) ==
    MinOr0({i \in 1..Len(s) :
               /\ s[i] = "\n"
               /\ \E j \in (i + 1)..Len(s) :
                     /\ s[j] = "\n"
                     /\ \A k \in (i + 1)..(j - 1) : IsSpace(s[k])})

\* priority 3 once the split position is known (0: no blank line)
SplitAt(remainder, splitPos) ==
    IF splitPos = 0 THEN [changelog |-> Null, refined |-> Null]
    ELSE [changelog |-> Str(Trim(SubSeq(remainder, 1, splitPos - 1))),
          refined |-> Str(Trim(SubSeq(remainder, splitPos, Len(remainder))))]

SplitRemainder(remainder) == SplitAt(remainder, BlankLineAt(remainder))

\* priority 3: an unclosed [CHANGELOG] tag at p (0: none)
UnclosedChangelog(s, p) ==
    IF p = 0 THEN [changelog |-> Null, refined |-> Null]
    ELSE SplitRemainder(UnclosedGroup(s, p))

\* the if/else chain of parseChangelog up to the fallback: changelog and
\* refined as the three extraction branches leave them
Extract(s) ==
    IF PairClose(s, REFINED_NAME) # 0
    THEN [changelog |-> IF PairClose(s, CHANGELOG_NAME) # 0
                        THEN Str(Trim(PairGroup(s, CHANGELOG_NAME))) ELSE Null,
          refined |-> Str(Trim(PairGroup(s, REFINED_NAME)))]
    ELSE IF PairClose(s, CHANGELOG_NAME) # 0
    THEN [changelog |-> Str(Trim(PairGroup(s, CHANGELOG_NAME))),
          refined |-> Str(Trim(AfterPair(s, CHANGELOG_NAME)))]
    ELSE UnclosedChangelog(s, IndexOfCI(OpenTag(CHANGELOG_NAME), s, 1))

\* /\[\/?(?:REFINED|CHANGELOG)\]/i anchored at p: length of the match, 0 if none
MarkerLenAt(s, p) ==
    IF MatchAtCI(OpenTag(REFINED_NAME), s, p) THEN 9
    ELSE IF MatchAtCI(CloseTag(REFINED_NAME), s, p) THEN 10
    ELSE IF MatchAtCI(OpenTag(CHANGELOG_NAME), s, p) THEN 11
    ELSE IF MatchAtCI(CloseTag(CHANGELOG_NAME), s, p) THEN 12
    ELSE 0

\* refined.replace(/\[\/?(?:REFINED|CHANGELOG)\]/gi, '') from the scan position
RECURSIVE StripMarkers(_, _, _)
StripMarkerAt(s, from, acc, p) ==
    IF p = 0 THEN acc \o SubSeq(s, from, Len(s))
    ELSE StripMarkers(s, p + MarkerLenAt(s, p), acc \o SubSeq(s, from, p - 1))

StripMarkers(s, from, acc) ==
    StripMarkerAt(s, from, acc, MinOr0({p \in from..Len(s) : MarkerLenAt(s, p) # 0}))

\* !refined
Falsy(v) == v.isNull \/ v.text = <<>>

\* parseChangelog without the final replace of leftover tag markers
FinishParse_NoCleanup(s, ex) ==
    [changelog |-> ex.changelog,
     refined |-> Trim(IF Falsy(ex.refined) THEN Trim(s) ELSE ex.refined.text),
     fallback |-> Falsy(ex.refined)]

\* the fallback and the final cleanup; fallback records that the fallback
\* assignment ran (it is not part of the returned object)
FinishParse(s, ex) ==
    [changelog |-> ex.changelog,
     refined |-> Trim(StripMarkers(IF Falsy(ex.refined) THEN Trim(s) ELSE ex.refined.text,
                                   1, <<>>)),
     fallback |-> Falsy(ex.refined)]

parseChangelog(responseText) == FinishParse(responseText, Extract(responseText))

(***************************************************************************)
(* DiffEngine                                                              *)
(***************************************************************************)
\* the match stops after one character
RunEnd_OneCharacter(s, p) == p

\* /\S+|\s+/ anchored at p: index of the last character of the run
RunEnd(s, p) ==
    Min({e \in p..Len(s) : e = Len(s) \/ IsSpace(s[e + 1]) # IsSpace(s[p])})

\* text.match(/\S+|\s+/g) || [], from position p on
RECURSIVE TokensFrom(_, _)
TokenThrough(s, p, e) == <<SubSeq(s, p, e)>> \o TokensFrom(s, e + 1)

TokensFrom(s, p) == IF p > Len(s) THEN <<>> ELSE TokenThrough(s, p, RunEnd(s, p))

tokenize(t) == TokensFrom(t, 1)

\* a cell of the Uint16Array rows of lcsTable
Uint16(n) == n % 65536

MaxOf(x, y) == IF x >= y THEN x ELSE y

\* lcsTable(a, b)[i][j]
RECURSIVE lcsTable(_, _, _, _)
lcsTable(a, b, i, j) ==
    IF i = 0 \/ j = 0 THEN 0
    ELSE IF a[i] = b[j] THEN Uint16(lcsTable(a, b, i - 1, j - 1) + 1)
    ELSE MaxOf(lcsTable(a, b, i - 1, j), lcsTable(a, b, i, j - 1))

Seg(type, t) == [type |-> type, text |-> t]

\* the backtrace loop with a tie of the table resolved towards delete
RECURSIVE Backtrace_DeleteOnTie(_, _, _, _, _)
Backtrace_DeleteOnTie(a, b, i, j, diff) ==
    IF ~(i > 0 \/ j > 0) THEN diff
    ELSE IF i > 0 /\ j > 0 /\ a[i] = b[j]
    THEN Backtrace_DeleteOnTie(a, b, i - 1, j - 1, Append(diff, Seg("equal", a[i])))
    ELSE IF j > 0 /\ (i = 0 \/ lcsTable(a, b, i, j - 1) > lcsTable(a, b, i - 1, j))
    THEN Backtrace_DeleteOnTie(a, b, i, j - 1, Append(diff, Seg("insert", b[j])))
    ELSE Backtrace_DeleteOnTie(a, b, i - 1, j, Append(diff, Seg("delete", a[i])))

\* the backtrace loop of computeWordDiff from cell (i, j), pushing onto diff
RECURSIVE Backtrace(_, _, _, _, _)
Backtrace(a, b, i, j, diff) ==
    IF ~(i > 0 \/ j > 0) THEN diff
    ELSE IF i > 0 /\ j > 0 /\ a[i] = b[j]
    THEN Backtrace(a, b, i - 1, j - 1, Append(diff, Seg("equal", a[i])))
    ELSE IF j > 0 /\ (i = 0 \/ lcsTable(a, b, i, j - 1) >= lcsTable(a, b, i - 1, j))
    THEN Backtrace(a, b, i, j - 1, Append(diff, Seg("insert", b[j])))
    ELSE Backtrace(a, b, i - 1, j, Append(diff, Seg("delete", a[i])))

\* Array.prototype.reverse
Reverse(q) == [k \in 1..Len(q) |-> q[Len(q) + 1 - k]]

\* the merge step with the text of the merged segment left as it was
MergeSeg_KeepText(merged, seg) ==
    IF Len(merged) > 0 /\ merged[Len(merged)].type = seg.type
    THEN merged
    ELSE Append(merged, seg)

\* one iteration of the merge loop
MergeSeg(merged, seg) ==
    IF Len(merged) > 0 /\ merged[Len(merged)].type = seg.type
    THEN [merged EXCEPT ![Len(merged)].text = @ \o seg.text]
    ELSE Append(merged, seg)

RECURSIVE MergeFrom(_, _, _)
MergeFrom(diff, k, merged) ==
    IF k > Len(diff) THEN merged
    ELSE MergeFrom(diff, k + 1, MergeSeg(merged, diff[k]))

\* the diff of two token arrays
DiffTokens(a, b) ==
    MergeFrom(Reverse(Backtrace(a, b, Len(a), Len(b), <<>>)), 1, <<>>)

computeWordDiff(original, refined) == DiffTokens(tokenize(original), tokenize(refined))

\* s.text.trim().split(/\s+/).filter(Boolean).length: the runs of non-space
\* characters of a text
WordsIn(t) ==
    Cardinality({p \in 1..Len(t) : ~IsSpace(t[p]) /\ (p = 1 \/ IsSpace(t[p - 1]))})

RECURSIVE WordsFrom(_, _, _)
WordsFrom(segments, type, k) ==
    IF k > Len(segments) THEN 0
    ELSE (IF segments[k].type = type THEN WordsIn(segments[k].text) ELSE 0)
             + WordsFrom(segments, type, k + 1)

\* the count taken per segment instead of per word
countWords_Segments(segments, type) ==
    Cardinality({k \in 1..Len(segments) : segments[k].type = type})

\* countWords of showDiffPopup
countWords(segments, type) == WordsFrom(segments, type, 1)

(***************************************************************************)
(* PovDetector                                                             *)
(***************************************************************************)
FirstPerson == {<<"i">>, <<"m","e">>, <<"m","y">>, <<"m","y","s","e","l","f">>,
                <<"m","i","n","e">>}
SecondPerson == {<<"y","o","u">>, <<"y","o","u","r">>, <<"y","o","u","r","s">>,
                 <<"y","o","u","r","s","e","l","f">>}
ThirdPerson == {<<"h","e">>, <<"s","h","e">>, <<"t","h","e","y">>, <<"h","i","m">>,
                <<"h","e","r">>, <<"t","h","e","m">>, <<"h","i","s">>,
                <<"h","e","r","s">>, <<"t","h","e","i","r">>,
                <<"t","h","e","i","r","s">>}

\* the positions where a run of \w characters starts (a \b before a word)
WordStarts(t) == {p \in 1..Len(t) : IsWord(t[p]) /\ (p = 1 \/ ~IsWord(t[p - 1]))}

\* the last character of the run, q being the first character behind it
WordEndOr(t, q) == IF q = 0 THEN Len(t) ELSE q - 1

\* the run of \w characters that starts at p
WordAt(t, p) == SubSeq(t, p, WordEndOr(t, MinOr0({e \in p..Len(t) : ~IsWord(t[e])})))

\* (lower.match(/\b(w1|w2|...)\b/g) || []).length
CountWords(t, words) == Cardinality({p \in WordStarts(t) : LowerStr(WordAt(t, p)) \in words})

\* what detectPov returns when it is unclear
NoPov == "null"

\* n > total * 0.2; the product of a count and 0.2 is never rounded below a
\* fifth of the count, so the test is the one on the integers
ExceedsFifth(n, total) == 5 * n > total

\* the decision without the threshold of three pronouns
DecidePov_NoThreshold(first, second, third) ==
    IF ExceedsFifth(first, first + second + third)
       /\ ExceedsFifth(second, first + second + third) THEN "1.5"
    ELSE IF first > second /\ first > third THEN "1st"
    ELSE IF second > first /\ second > third THEN "2nd"
    ELSE IF third > first /\ third > second THEN "3rd"
    ELSE NoPov

\* the plurality tests before the test for first and second person together
DecidePov_PluralityFirst(first, second, third) ==
    IF first + second + third < 3 THEN NoPov
    ELSE IF first > second /\ first > third THEN "1st"
    ELSE IF second > first /\ second > third THEN "2nd"
    ELSE IF third > first /\ third > second THEN "3rd"
    ELSE IF ExceedsFifth(first, first + second + third)
            /\ ExceedsFifth(second, first + second + third) THEN "1.5"
    ELSE NoPov

\* the decision of detectPov on the three counts
DecidePov(first, second, third) ==
    IF first + second + third < 3 THEN NoPov
    ELSE IF ExceedsFifth(first, first + second + third)
            /\ ExceedsFifth(second, first + second + third) THEN "1.5"
    ELSE IF first > second /\ first > third THEN "1st"
    ELSE IF second > first /\ second > third THEN "2nd"
    ELSE IF third > first /\ third > second THEN "3rd"
    ELSE NoPov

detectPov(t) ==
    DecidePov(CountWords(t, FirstPerson), CountWords(t, SecondPerson),
              CountWords(t, ThirdPerson))

(***************************************************************************)
(* RuleCompiler                                                            *)
(***************************************************************************)
\* the keys of BUILTIN_RULES in declaration order
BUILTIN_KEYS == <<"grammar", "echo", "repetition", "voice", "prose", "formatting", "ending", "lore">>

\* the prompts of BUILTIN_RULES, every line of a prompt cut to its first three
\* characters
BUILTIN_PROMPTS ==
    [key \in {BUILTIN_KEYS[k] : k \in 1..Len(BUILTIN_KEYS)} |->
        CASE key = "grammar" ->
               <<"F", "i", "x">>
          [] key = "echo" ->
               <<"U", "s", "i", "\n", "\n", "B", "A", "N", "\n", "1", ".", " ", "\n", "2", ".", " ", "\n", "3", ".", " ", "\n", "4", ".", " ", "\n", "\n", "C", "h", "e">>
          [] key = "repetition" ->
               <<"U", "s", "i", "\n", "1", ".", " ", "\n", "2", ".", " ", "\n", "3", ".", " ", "\n", "\n", "D", "o", " ">>
          [] key = "voice" ->
               <<"U", "s", "i", "\n", "1", ".", " ", "\n", "2", ".", " ", "\n", "3", ".", " ", "\n", "\n", "D", "o", " ">>
          [] key = "prose" ->
               <<"S", "c", "a", "\n", "1", ".", " ", "\n", "2", ".", " ", "\n", "3", ".", " ", "\n", "4", ".", " ", "\n", "\n", "D", "o", " ">>
          [] key = "formatting" ->
               <<"E", "n", "s", "\n", "1", ".", " ", "\n", "2", ".", " ", "\n", "3", ".", " ", "\n", "\n", "D", "o", " ">>
          [] key = "ending" ->
               <<"C", "h", "e", "\n", "\n", "D", "I", "S", "\n", "1", ".", " ", "\n", "2", ".", " ", "\n", "3", ".", " ", "\n", "4", ".", " ", "\n", "5", ".", " ", "\n", "\n", "F", "I", "X", "\n", "\n", "E", "X", "C">>
          [] key = "lore" ->
               <<"U", "s", "i", "\n", "\n", "D", "o", " ">>]

\* 'Improve the overall quality of the message', cut in the same way
FALLBACK_RULE == <<"I", "m", "p">>

\* the prompts of the built-in rules that are switched on, in declaration order
RECURSIVE BuiltInsFrom(_, _)
BuiltInsFrom(builtInRules, k) ==
    IF k > Len(BUILTIN_KEYS) THEN <<>>
    ELSE (IF builtInRules[BUILTIN_KEYS[k]] THEN <<BUILTIN_PROMPTS[BUILTIN_KEYS[k]]>>
          ELSE <<>>) \o BuiltInsFrom(builtInRules, k + 1)

\* rule.enabled && rule.text && rule.text.trim()
CustomActive(rule) == rule.enabled /\ Trim(rule.text) # <<>>

\* the trimmed texts of the custom rules that are active, in stored order
RECURSIVE CustomFrom(_, _)
CustomFrom(customRules, i) ==
    IF i > Len(customRules) THEN <<>>
    ELSE (IF CustomActive(customRules[i]) THEN <<Trim(customRules[i].text)>> ELSE <<>>)
         \o CustomFrom(customRules, i + 1)

\* the rule list is left empty
WithFallback_Never(rules) == rules

\* if (rules.length === 0) rules.push(fallback)
WithFallback(rules) == IF rules = <<>> THEN <<FALLBACK_RULE>> ELSE rules

\* rules.map((r, i) => `${i + 1}. ${r}`).join('\n'), from rule i on
RECURSIVE NumberedFrom(_, _)
NumberedFrom(rules, i) ==
    IF i > Len(rules) THEN <<>>
    ELSE (IF i > 1 THEN <<"\n">> ELSE <<>>)
         \o ToDigits(i) \o <<".", " ">> \o rules[i] \o NumberedFrom(rules, i + 1)

compileRules(s) ==
    NumberedFrom(WithFallback(BuiltInsFrom(s.builtInRules, 1) \o CustomFrom(s.customRules, 1)),
                 1)

(***************************************************************************)
(* Server plugin: POST /refine up to its upstream request                  *)
(***************************************************************************)
MAX_BODY_SIZE_BYTES == 524288

\* the values of JSON and of a missing property, as far as the handler tells
\* them apart
JsUndefined == [t |-> "undefined", s |-> <<>>]
JsNumber == [t |-> "number", s |-> <<"5">>]
JsString(str) == [t |-> "string", s |-> str]

\* !v is false
Truthy(v) == v.t = "number" \/ (v.t = "string" /\ v.s # <<>>)

\* an element of messages: null, a number, or an object with what its role and
\* content properties hold
JsNullMsg == [t |-> "null", role |-> JsUndefined, content |-> JsUndefined]
JsNumberMsg == [t |-> "number", role |-> JsUndefined, content |-> JsUndefined]
JsObjectMsg(role, content) == [t |-> "object", role |-> role, content |-> content]

Answer(status) == [status |-> status, upstream |-> FALSE]
UpstreamRequest == [status |-> 0, upstream |-> TRUE]

\* const config = readConfig(); if (!config || !config.apiKey || !config.apiUrl)
ConfigStep(file) ==
    IF ~file.exists \/ ~Truthy(file.apiKey) \/ ~Truthy(file.apiUrl)
    THEN Answer(503)
    ELSE UpstreamRequest

\* for (const msg of messages): msg.role of null throws a TypeError, which the
\* catch of the handler answers with 500
RECURSIVE CheckMessages(_, _, _)
CheckMessages(items, k, file) ==
    IF k > Len(items) THEN ConfigStep(file)
    ELSE IF items[k].t = "null" THEN Answer(500)
    ELSE IF ~Truthy(items[k].role) \/ items[k].role.t # "string" THEN Answer(400)
    ELSE IF ~Truthy(items[k].content) \/ items[k].content.t # "string" THEN Answer(400)
    ELSE CheckMessages(items, k + 1, file)

\* the handler of POST /refine up to the fetch
refineChecks(body, file) ==
    IF body.length > MAX_BODY_SIZE_BYTES THEN Answer(413)
    ELSE IF body.messages.t # "array" \/ Len(body.messages.items) = 0 THEN Answer(400)
    ELSE CheckMessages(body.messages.items, 1, file)

(***************************************************************************)
(* Server plugin: sanitizeError and the 502 answer                         *)
(***************************************************************************)
REDACTED == <<"[", "R", "E", "D", "A", "C", "T", "E", "D", "]">>

\* the characters of the class in /[.*+?^${}()|[\]\\]/g
RegExpSpecials == {".", "*", "+", "?", "^", "$", "{", "}", "(", ")", "|", "[", "]", "\\"}

\* key.replace(/[.*+?^${}()|[\]\\]/g, '\\$&'): a backslash before every special
RECURSIVE EscapeRegExp(_)
EscapeRegExp(key) ==
    IF key = <<>> THEN <<>>
    ELSE (IF Head(key) \in RegExpSpecials THEN <<"\\", Head(key)>> ELSE <<Head(key)>>)
             \o EscapeRegExp(Tail(key))

\* new RegExp(source, 'g') for the sources at hand: a backslash makes the next
\* character a literal, a bare dot matches any character, anything else is
\* itself
RECURSIVE RegExpAtoms(_)
RegExpAtoms(source) ==
    IF source = <<>> THEN <<>>
    ELSE IF Head(source) = "\\" /\ Len(source) >= 2
         THEN <<[any |-> FALSE, ch |-> source[2]]>> \o RegExpAtoms(Tail(Tail(source)))
    ELSE IF Head(source) = "."
         THEN <<[any |-> TRUE, ch |-> "."]>> \o RegExpAtoms(Tail(source))
    ELSE <<[any |-> FALSE, ch |-> Head(source)]>> \o RegExpAtoms(Tail(source))

\* the pattern matches message at position i
MatchesAt(atoms, message, i) ==
    /\ i + Len(atoms) - 1 <= Len(message)
    /\ \A n \in 1..Len(atoms) : atoms[n].any \/ atoms[n].ch = message[i + n - 1]

\* message.replace(re, '[REDACTED]') with the g flag: leftmost matches, left to
\* right, none overlapping
RECURSIVE ReplaceAllFrom(_, _, _)
ReplaceAllFrom(atoms, message, i) ==
    IF i > Len(message) THEN <<>>
    ELSE IF MatchesAt(atoms, message, i)
         THEN REDACTED \o ReplaceAllFrom(atoms, message, i + Len(atoms))
    ELSE <<message[i]>> \o ReplaceAllFrom(atoms, message, i + 1)

\* sanitizeError(message), reading cachedConfig; an absent configuration or key
\* is the empty key
sanitizeError(message, cached) ==
    IF cached # <<>> /\ Includes(message, cached)
    THEN ReplaceAllFrom(RegExpAtoms(EscapeRegExp(cached)), message, 1)
    ELSE message

ERROR_SLICE == 200

\* sanitized.slice(0, 200)
Slice200(t) == IF Len(t) <= ERROR_SLICE THEN t ELSE SubSeq(t, 1, ERROR_SLICE)

\* `LLM API returned ${response.status}: ` for an upstream 401
LLM_API_RETURNED ==
    <<"L", "L", "M", " ", "A", "P", "I", " ", "r", "e", "t", "u", "r", "n", "e", "d",
      " ", "4", "0", "1", ":", " ">>

NoAnswer == [status |-> 0, error |-> <<>>, sentKey |-> <<>>, configuredKey |-> <<>>]

(***************************************************************************)
(* State                                                                   *)
(***************************************************************************)
VARIABLES
    text,       \* ContentProtector: the text handed to stripProtectedBlocks
    stripped,   \* the stripped text it returned
    blocks,     \* the block list it returned
    reply,      \* the text handed to restoreProtectedBlocks
    restored,   \* the text restoreProtectedBlocks returned
    ppc         \* position in the strip / rewrite / restore sequence

protVars == <<text, stripped, blocks, reply, restored, ppc>>

VARIABLES
    dOriginal,  \* DiffEngine: the original text handed to computeWordDiff
    dRefined,   \* the refined text handed to it
    dMerged,    \* the segments it returned
    dpc         \* "input" before the call, "done" after it

diffVars == <<dOriginal, dRefined, dMerged, dpc>>

VARIABLES
    raw,        \* ResponseParser: the raw reply handed to parseChangelog
    parsed,     \* what it returned
    rpc         \* "input" before the call, "done" after it

parseVars == <<raw, parsed, rpc>>

VARIABLES
    isRefining,       \* the re-entrancy guard
    pluginAvailable,  \* whether the server plugin answered the last status check
    settings,         \* autoRefine and connectionMode; enabled stays true
    chat,             \* context.chat: the messages, the message of index i at i + 1
    originals,        \* chatMetadata.redraft_originals: index -> text or Null
    diffs,            \* chatMetadata.redraft_diffs: index -> record or Null
    ops,              \* the redraftMessage calls suspended at an await
    rejected,         \* whether the guard has turned a call away since it was set
    timers,           \* the pending auto-refine timers, in order of firing
    undoShown,        \* the indices whose message shows an undo button
    undoing,          \* the undoRedraft calls awaiting their two saves
    cleanRewrite      \* history: index -> the text the message had before its last
                      \* rewrite, while that rewrite went through and nothing else
                      \* has worked on the message since it began; Null otherwise

refineVars == <<isRefining, pluginAvailable, settings, chat, originals, diffs,
                ops, rejected, timers, undoShown, undoing, cleanRewrite>>

VARIABLES
    povText,    \* detectPov: the text handed to it
    pov,        \* what it returned
    vpc         \* "input" before the call, "done" after it

povVars == <<povText, pov, vpc>>

VARIABLES
    ruleSettings,  \* compileRules: the settings handed to it
    compiled,      \* the string it returned
    cpc            \* "input" before the call, "done" after it

ruleVars == <<ruleSettings, compiled, cpc>>

VARIABLES
    cellDiag,   \* lcsTable: dp[i-1][j-1] as stored
    cellUp,     \* dp[i-1][j] as stored
    cellLeft,   \* dp[i][j-1] as stored
    cellSame,   \* whether a[i-1] === b[j-1]
    cellOut,    \* dp[i][j] as stored by the assignment
    tpc         \* "input" before the assignment, "done" after it

tableVars == <<cellDiag, cellUp, cellLeft, cellSame, cellOut, tpc>>

VARIABLES
    rqBody,     \* POST /refine: req.body, with the length of its JSON text
    rqFile,     \* what readConfig finds on disk
    rqOutcome,  \* the status answered, or that the upstream request went out
    qpc         \* "input" before the handler ran, "done" after it

validateVars == <<rqBody, rqFile, rqOutcome, qpc>>

VARIABLES
    configFile,    \* server plugin: the configuration in config.json, or null
    cachedConfig,  \* the module variable cachedConfig
    inflight,      \* the API keys of the upstream requests awaiting their answer
    answer         \* the last 502 response, with the keys it is judged against

pluginVars == <<configFile, cachedConfig, inflight, answer>>

sideVars == <<tableVars, validateVars, pluginVars>>

vars == <<protVars, diffVars, parseVars, refineVars, povVars, ruleVars, sideVars>>

(***************************************************************************)
(* ContentProtector: strip, the rewriting engine, restore                  *)
(***************************************************************************)
DIV_OPEN == <<"<","d","i","v",">">>
DIV_CLOSE == <<"<","/","d","i","v",">">>
OOC_OPEN == <<"[","O","O","C","]">>
OOC_CLOSE == <<"[","/","O","O","C","]">>

\* the pieces the texts of the model are built from
ProtFrags == {FENCE, DIV_OPEN, DIV_CLOSE, OOC_OPEN, OOC_CLOSE, Placeholder(0), <<"x">>}

RECURSIVE FragSeqs(_, _)
FragSeqs(F, n) ==
    IF n = 0 THEN {<<>>}
    ELSE LET shorter == FragSeqs(F, n - 1)
         IN shorter \cup {Append(fs, f) : fs \in {g \in shorter : Len(g) = n - 1}, f \in F}

\* every concatenation of at most n pieces of F
TextsOf(F, n) == {Concat(fs) : fs \in FragSeqs(F, n)}

\* bracket blocks under the tag names of the reply protocol and of the placeholders
ProtocolNames ==
    {REFINED_NAME, LowerStr(REFINED_NAME), CHANGELOG_NAME, LowerStr(CHANGELOG_NAME),
     PROTECTED_NAME, PROTECTED_NAME \o <<"_", "A">>}

ProtocolBlocks ==
    {<<"[">> \o name \o <<"]">> \o inner \o <<"[", "/">> \o name \o <<"]">> :
        name \in ProtocolNames, inner \in {<<>>, <<"x">>}}

\* a block of the protocol followed by a bracket block of the text
ReservedThenBlock == {b \o OOC_OPEN \o <<"x">> \o OOC_CLOSE : b \in ProtocolBlocks}

ProtTexts == TextsOf(ProtFrags, MaxFrags) \cup ProtocolBlocks \cup ReservedThenBlock

\* what the rewriting engine may hand back in place of the stripped text
EngineFrags == {Placeholder(0), Placeholder(1), <<"y">>}
EngineTexts == TextsOf(EngineFrags, 2)

ProtIdle ==
    /\ text = <<>>
    /\ stripped = <<>>
    /\ blocks = <<>>
    /\ reply = <<>>
    /\ restored = <<>>
    /\ ppc = "off"

DiffIdle ==
    /\ dOriginal = <<>>
    /\ dRefined = <<>>
    /\ dMerged = <<>>
    /\ dpc = "off"

NoParse == [changelog |-> Null, refined |-> <<>>, fallback |-> FALSE]

ParseIdle ==
    /\ raw = <<>>
    /\ parsed = NoParse
    /\ rpc = "off"

\* the messages of the model: a greeting without text, a user message, a reply
\* that holds a code fence
InitialChat ==
    << [mes |-> <<>>, is_user |-> FALSE],
       [mes |-> <<"u">>, is_user |-> TRUE],
       [mes |-> <<"a">> \o FENCE \o <<"k">> \o FENCE, is_user |-> FALSE] >>

Indices == 0..(Len(InitialChat) - 1)

RefineIdle ==
    /\ isRefining = FALSE
    /\ pluginAvailable = FALSE
    /\ settings = [autoRefine |-> FALSE, connectionMode |-> "st"]
    /\ chat = InitialChat
    /\ originals = [i \in Indices |-> Null]
    /\ diffs = [i \in Indices |-> Null]
    /\ ops = <<>>
    /\ rejected = FALSE
    /\ timers = <<>>
    /\ undoShown = {}
    /\ undoing = {}
    /\ cleanRewrite = [i \in Indices |-> Null]

PovIdle ==
    /\ povText = <<>>
    /\ pov = NoPov
    /\ vpc = "off"

RulesIdle ==
    /\ ruleSettings = [builtInRules |-> <<>>, customRules |-> <<>>]
    /\ compiled = <<>>
    /\ cpc = "off"

NoFile == [exists |-> FALSE, apiKey |-> JsUndefined, apiUrl |-> JsUndefined]

ValidateIdle ==
    /\ rqBody = [length |-> 0, messages |-> [t |-> "undefined", items |-> <<>>]]
    /\ rqFile = NoFile
    /\ rqOutcome = Answer(0)
    /\ qpc = "off"

PluginIdle ==
    /\ configFile = <<>>
    /\ cachedConfig = <<>>
    /\ inflight = <<>>
    /\ answer = NoAnswer

TableIdle ==
    /\ cellDiag = 0
    /\ cellUp = 0
    /\ cellLeft = 0
    /\ cellSame = FALSE
    /\ cellOut = 0
    /\ tpc = "off"

SideIdle == TableIdle /\ ValidateIdle /\ PluginIdle

ProtInit ==
    /\ DiffIdle
    /\ ParseIdle
    /\ RefineIdle
    /\ PovIdle
    /\ RulesIdle
    /\ SideIdle
    /\ text \in ProtTexts
    /\ stripped = <<>>
    /\ blocks = <<>>
    /\ reply = <<>>
    /\ restored = <<>>
    /\ ppc = "input"

\* stripProtectedBlocks(message.mes); the stripped text goes to the engine
Strip ==
    /\ ppc = "input"
    /\ \E r \in {stripProtectedBlocks(text)} :
          /\ stripped' = r.stripped
          /\ blocks' = r.blocks
          /\ reply' = r.stripped
    /\ ppc' = "stripped"
    /\ UNCHANGED <<text, restored, diffVars, parseVars, refineVars, povVars, ruleVars,
                   sideVars>>

\* the first occurrence of lit removed from s
CutAt(s, q, n) ==
    IF q = 0 THEN s ELSE SubSeq(s, 1, q - 1) \o SubSeq(s, q + n, Len(s))

RemoveFirst(s, lit) == CutAt(s, IndexOf(lit, s, 1), Len(lit))

\* the rewriting engine drops a placeholder from the text it was given
EngineDrop ==
    /\ ppc = "stripped"
    /\ \E k \in 0..(Len(blocks) - 1) :
          /\ Includes(reply, Placeholder(k))
          /\ reply' = RemoveFirst(reply, Placeholder(k))
    /\ UNCHANGED <<text, stripped, blocks, restored, ppc, diffVars, parseVars,
                   refineVars, povVars, ruleVars, sideVars>>

\* the rewriting engine answers with a text of its own
EngineRewrite ==
    /\ ppc = "stripped"
    /\ reply = stripped
    /\ reply' \in EngineTexts \ {stripped}
    /\ UNCHANGED <<text, stripped, blocks, restored, ppc, diffVars, parseVars,
                   refineVars, povVars, ruleVars, sideVars>>

\* restoreProtectedBlocks(cleanRefined, protectedBlocks)
Restore ==
    /\ ppc = "stripped"
    /\ restored' = restoreProtectedBlocks(reply, blocks)
    /\ ppc' = "restored"
    /\ UNCHANGED <<text, stripped, blocks, reply, diffVars, parseVars, refineVars,
                   povVars, ruleVars, sideVars>>

ProtNext == Strip \/ EngineDrop \/ EngineRewrite \/ Restore

SpecProtect == ProtInit /\ [][ProtNext]_vars

(***************************************************************************)
(* DiffEngine: computeWordDiff on two texts                                *)
(***************************************************************************)
DiffChars == {<<"a">>, <<"b">>, <<" ">>}
\* 'The cat sat.' and 'The cat sat quietly.'
CAT_SAT == <<"T","h","e"," ","c","a","t"," ","s","a","t",".">>
CAT_SAT_QUIETLY ==
    <<"T","h","e"," ","c","a","t"," ","s","a","t"," ","q","u","i","e","t","l","y",".">>

DiffTexts == TextsOf(DiffChars, MaxDiffLen) \cup {CAT_SAT, CAT_SAT_QUIETLY}

DiffInit ==
    /\ ProtIdle
    /\ ParseIdle
    /\ RefineIdle
    /\ PovIdle
    /\ RulesIdle
    /\ SideIdle
    /\ dOriginal \in DiffTexts
    /\ dRefined \in DiffTexts
    /\ dMerged = <<>>
    /\ dpc = "input"

\* const diff = computeWordDiff(original, refined)
ComputeWordDiff ==
    /\ dpc = "input"
    /\ dMerged' = computeWordDiff(dOriginal, dRefined)
    /\ dpc' = "done"
    /\ UNCHANGED <<dOriginal, dRefined, protVars, parseVars, refineVars, povVars, ruleVars,
                   sideVars>>

DiffNext == ComputeWordDiff

SpecDiff == DiffInit /\ [][DiffNext]_vars

(***************************************************************************)
(* DiffEngine: one assignment of the loop of lcsTable                      *)
(***************************************************************************)
\* the largest value a cell of a Uint16Array holds
UINT16_MAX == 65535

\* what the neighbours of a cell hold when the cell is assigned: lengths near
\* zero, and lengths near the top of the range of the array
CellValues == 0..CellSpread \cup (UINT16_MAX - CellSpread)..UINT16_MAX

\* In a table of lengths of longest common subsequences the cell above and the
\* cell to the left hold what the diagonal cell holds, or one more. The
\* neighbours are cells assigned earlier without loss.
TableInit ==
    /\ ProtIdle
    /\ DiffIdle
    /\ ParseIdle
    /\ RefineIdle
    /\ PovIdle
    /\ RulesIdle
    /\ ValidateIdle
    /\ PluginIdle
    /\ cellDiag \in CellValues
    /\ cellUp \in {cellDiag, cellDiag + 1} \cap 0..UINT16_MAX
    /\ cellLeft \in {cellDiag, cellDiag + 1} \cap 0..UINT16_MAX
    /\ cellSame \in BOOLEAN
    /\ cellOut = 0
    /\ tpc = "input"

\* dp[i][j] = a[i - 1] === b[j - 1] ? dp[i - 1][j - 1] + 1
\*                                 : Math.max(dp[i - 1][j], dp[i][j - 1])
FillCell ==
    /\ tpc = "input"
    /\ cellOut' = IF cellSame THEN Uint16(cellDiag + 1) ELSE MaxOf(cellUp, cellLeft)
    /\ tpc' = "done"
    /\ UNCHANGED <<cellDiag, cellUp, cellLeft, cellSame, protVars, diffVars, parseVars,
                   refineVars, povVars, ruleVars, validateVars, pluginVars>>

TableNext == FillCell

SpecTable == TableInit /\ [][TableNext]_vars

(***************************************************************************)
(* Server plugin: the checks of POST /refine on a request                  *)
(***************************************************************************)
PropertyValues == {JsUndefined, JsNumber, JsString(<<>>), JsString(<<"s">>)}

Msgs ==
    {JsNullMsg, JsNumberMsg}
        \cup {JsObjectMsg(role, content) : role \in PropertyValues, content \in PropertyValues}

RECURSIVE MsgLists(_)
MsgLists(n) ==
    IF n = 0 THEN {<<>>}
    ELSE MsgLists(n - 1)
             \cup {Append(l, m) : l \in {g \in MsgLists(n - 1) : Len(g) = n - 1}, m \in Msgs}

\* req.body.messages: missing, a string, or an array
MessagesValues ==
    {[t |-> "undefined", items |-> <<>>], [t |-> "string", items |-> <<>>]}
        \cup {[t |-> "array", items |-> l] : l \in MsgLists(MaxMessages)}

\* JSON.stringify(req.body).length
BodyLengths == {2, MAX_BODY_SIZE_BYTES, MAX_BODY_SIZE_BYTES + 1}

\* config.json: missing or unreadable, or an object with these properties
ConfigValues == {JsUndefined, JsString(<<>>), JsString(<<"k">>)}
Files ==
    {NoFile} \cup {[exists |-> TRUE, apiKey |-> k, apiUrl |-> u] :
                      k \in ConfigValues, u \in ConfigValues}

ValidateInit ==
    /\ ProtIdle
    /\ DiffIdle
    /\ ParseIdle
    /\ RefineIdle
    /\ PovIdle
    /\ RulesIdle
    /\ TableIdle
    /\ PluginIdle
    /\ rqBody \in [length : BodyLengths, messages : MessagesValues]
    /\ rqFile \in Files
    /\ rqOutcome = Answer(0)
    /\ qpc = "input"

\* router.post('/refine', ...) from its first line to the fetch
PostRefineChecks ==
    /\ qpc = "input"
    /\ rqOutcome' = refineChecks(rqBody, rqFile)
    /\ qpc' = "done"
    /\ UNCHANGED <<rqBody, rqFile, protVars, diffVars, parseVars, refineVars, povVars,
                   ruleVars, tableVars, pluginVars>>

ValidateNext == PostRefineChecks

SpecValidate == ValidateInit /\ [][ValidateNext]_vars

(***************************************************************************)
(* Server plugin: POST /config and POST /refine requests interleaved       *)
(***************************************************************************)
\* the apiKey values a client stores
Keys == {<<"k">>, <<"k", ".">>, <<"k", "[">>, <<"]", "k">>, <<"q">>}

\* what the upstream service writes around the key it echoes
Around == {<<>>, <<"k">>}

\* the error bodies of the upstream service for a request that carried key
ErrorBodies(key) ==
    {pre \o key \o post : pre \in Around, post \in Around} \cup {<<"k", "x">>}

\* init(router): readConfig() at startup; config.json holds a key or is missing
PluginInit ==
    /\ ProtIdle
    /\ DiffIdle
    /\ ParseIdle
    /\ RefineIdle
    /\ PovIdle
    /\ RulesIdle
    /\ TableIdle
    /\ ValidateIdle
    /\ configFile \in Keys \cup {<<>>}
    /\ cachedConfig = configFile
    /\ inflight = <<>>
    /\ answer = NoAnswer

PluginUnchanged ==
    UNCHANGED <<protVars, diffVars, parseVars, refineVars, povVars, ruleVars, tableVars,
                validateVars>>

\* router.post('/config', ...) with valid fields: write the file, replace the
\* cached configuration
PostConfig(key) ==
    /\ configFile' = key
    /\ cachedConfig' = key
    /\ answer' = [NoAnswer EXCEPT !.status = 200]
    /\ UNCHANGED inflight
    /\ PluginUnchanged

\* router.post('/refine', ...) with a valid body, up to its await of fetch:
\* readConfig() refreshes the cached configuration from the file, then either
\* 503 or a request that carries the key of the file
PostRefine ==
    /\ Len(inflight) < MaxInFlight
    /\ cachedConfig' = (IF configFile # <<>> THEN configFile ELSE cachedConfig)
    /\ IF configFile = <<>>
       THEN /\ answer' = [NoAnswer EXCEPT !.status = 503]
            /\ UNCHANGED inflight
       ELSE /\ inflight' = Append(inflight, configFile)
            /\ UNCHANGED answer
    /\ UNCHANGED configFile
    /\ PluginUnchanged

Without(q, k) == SubSeq(q, 1, k - 1) \o SubSeq(q, k + 1, Len(q))

\* the fetch of request k resolves with a non-success status and this body
UpstreamFails(k, body) ==
    /\ answer' = [status |-> 502,
                  error |-> LLM_API_RETURNED \o Slice200(sanitizeError(body, cachedConfig)),
                  sentKey |-> inflight[k],
                  configuredKey |-> cachedConfig]
    /\ inflight' = Without(inflight, k)
    /\ UNCHANGED <<configFile, cachedConfig>>
    /\ PluginUnchanged

\* the fetch of request k resolves with a success status and a text
UpstreamOk(k) ==
    /\ answer' = [NoAnswer EXCEPT !.status = 200]
    /\ inflight' = Without(inflight, k)
    /\ UNCHANGED <<configFile, cachedConfig>>
    /\ PluginUnchanged

PluginNext ==
    \/ \E key \in Keys : PostConfig(key)
    \/ PostRefine
    \/ \E k \in 1..Len(inflight) : \E body \in ErrorBodies(inflight[k]) : UpstreamFails(k, body)
    \/ \E k \in 1..Len(inflight) : UpstreamOk(k)

SpecPlugin == PluginInit /\ [][PluginNext]_vars

(***************************************************************************)
(* ResponseParser: parseChangelog on a raw reply                           *)
(***************************************************************************)
ParseFrags == {OpenTag(REFINED_NAME), CloseTag(REFINED_NAME),
               OpenTag(CHANGELOG_NAME), CloseTag(CHANGELOG_NAME),
               <<"[","r","e","f","i","n","e","d","]">>,
               OpenTag(CHANGELOG_NAME) \o <<"-", "c">> \o CloseTag(CHANGELOG_NAME),
               <<"x">>, <<"\n", "\n">>}

\* the four tag markers, and each of them written inside each of them
Markers == {OpenTag(REFINED_NAME), CloseTag(REFINED_NAME),
            OpenTag(CHANGELOG_NAME), CloseTag(CHANGELOG_NAME)}

InsertAt(outer, k, inner) == SubSeq(outer, 1, k) \o inner \o SubSeq(outer, k + 1, Len(outer))

NestedMarkers ==
    {InsertAt(outer, k, inner) : outer \in Markers, inner \in Markers, k \in 1..8}

ParseTexts == TextsOf(ParseFrags, MaxParseFrags) \cup NestedMarkers

ParseInit ==
    /\ ProtIdle
    /\ DiffIdle
    /\ RefineIdle
    /\ PovIdle
    /\ RulesIdle
    /\ SideIdle
    /\ raw \in ParseTexts
    /\ parsed = NoParse
    /\ rpc = "input"

\* const { changelog, refined: cleanRefined } = parseChangelog(refinedText)
ParseChangelog ==
    /\ rpc = "input"
    /\ parsed' = parseChangelog(raw)
    /\ rpc' = "done"
    /\ UNCHANGED <<raw, protVars, diffVars, refineVars, povVars, ruleVars, sideVars>>

ParseNext == ParseChangelog

SpecParse == ParseInit /\ [][ParseNext]_vars

(***************************************************************************)
(* PovDetector: detectPov on a text                                        *)
(***************************************************************************)
\* the example of the documentation
POV_EXAMPLE == <<"I"," ","w","a","l","k","e","d","."," ","I"," ","s","m","i","l","e","d",".">>

\* one pronoun of each class, and pieces that join into words and non-words
PovFrags == {<<"I", " ">>, <<"y", "o", "u", " ">>, <<"h", "e", "r", " ">>}
PovEdgeFrags == {<<"m", "e">>, <<"I">>, <<"_">>, <<".">>}
PovTexts ==
    TextsOf(PovFrags, MaxPovFrags) \cup TextsOf(PovEdgeFrags, 3) \cup {POV_EXAMPLE}

PovInit ==
    /\ ProtIdle
    /\ DiffIdle
    /\ ParseIdle
    /\ RefineIdle
    /\ RulesIdle
    /\ SideIdle
    /\ povText \in PovTexts
    /\ pov = NoPov
    /\ vpc = "input"

\* const detected = detectPov(strippedMessage)
DetectPov ==
    /\ vpc = "input"
    /\ pov' = detectPov(povText)
    /\ vpc' = "done"
    /\ UNCHANGED <<povText, protVars, diffVars, parseVars, refineVars, ruleVars,
                   sideVars>>

PovNext == DetectPov

SpecPov == PovInit /\ [][PovNext]_vars

(***************************************************************************)
(* RuleCompiler: compileRules on a settings value                          *)
(***************************************************************************)
BuiltInKeySet == {BUILTIN_KEYS[k] : k \in 1..Len(BUILTIN_KEYS)}

\* builtInRules of defaultSettings
DefaultBuiltIns == {"grammar", "echo", "repetition", "voice", "prose", "formatting"}

\* the sets of built-in rules that are switched on in the model: none, one,
\* two, the default ones and all
BuiltInChoices ==
    {on \in SUBSET BuiltInKeySet : Cardinality(on) <= 2} \cup {DefaultBuiltIns, BuiltInKeySet}

\* the texts of the custom rules: empty, blank, padded, the fallback sentence
CustomTexts == {<<>>, <<" ">>, <<" ", "r", " ">>, FALLBACK_RULE}

CustomRule == [enabled : BOOLEAN, text : CustomTexts]

RECURSIVE CustomLists(_)
CustomLists(n) ==
    IF n = 0 THEN {<<>>}
    ELSE LET shorter == CustomLists(n - 1)
         IN shorter \cup {Append(l, r) : l \in {m \in shorter : Len(m) = n - 1},
                                          r \in CustomRule}

RulesInit ==
    /\ ProtIdle
    /\ DiffIdle
    /\ ParseIdle
    /\ RefineIdle
    /\ PovIdle
    /\ SideIdle
    /\ \E on \in BuiltInChoices, customRules \in CustomLists(MaxCustomRules) :
          ruleSettings = [builtInRules |-> [key \in BuiltInKeySet |-> key \in on],
                          customRules |-> customRules]
    /\ compiled = <<>>
    /\ cpc = "input"

\* const rulesText = compileRules(settings)
CompileRules ==
    /\ cpc = "input"
    /\ compiled' = compileRules(ruleSettings)
    /\ cpc' = "done"
    /\ UNCHANGED <<ruleSettings, protVars, diffVars, parseVars, refineVars, povVars,
                   sideVars>>

RulesNext == CompileRules

SpecRules == RulesInit /\ [][RulesNext]_vars

(***************************************************************************)
(* redraftMessage, undoRedraft and the handlers that trigger them          *)
(***************************************************************************)
\* what the generation collaborator may answer
Replies ==
    { OpenTag(REFINED_NAME) \o <<"b">> \o Placeholder(0) \o CloseTag(REFINED_NAME),
      OpenTag(CHANGELOG_NAME) \o <<"c">> \o CloseTag(CHANGELOG_NAME)
          \o OpenTag(REFINED_NAME) \o <<"b">> \o CloseTag(REFINED_NAME),
      <<" ">> }

\* the points at which redraftMessage is suspended: await saveMetadata(),
\* await refineViaST / refineViaPlugin, await saveChat(), await saveMetadata()
Awaits == {"saveMetadata", "generate", "saveChat", "saveDiffs"}

InFlight(op) == op.pc \in Awaits

\* before and undone are history: the text of the message when the call began,
\* and whether undoRedraft has worked on the message since
Op(idx, pc, mode) ==
    [idx |-> idx, pc |-> pc, mode |-> mode,
     protectedBlocks |-> <<>>, originalText |-> <<>>, changelog |-> Null,
     before |-> chat[idx + 1].mes, undone |-> FALSE]

\* the guard never turns an invocation away
GuardRejects_Never(flag) == FALSE

\* if (isRefining) return
GuardRejects(flag) == flag

\* how far the synchronous head of redraftMessage gets: the early return it
\* takes, or the first await
EntryOf(messageIndex) ==
    IF GuardRejects(isRefining) THEN "rejected"
    ELSE IF messageIndex < 0 \/ messageIndex >= Len(chat) THEN "invalid"
    ELSE IF chat[messageIndex + 1].mes = <<>> THEN "notext"
    ELSE IF settings.connectionMode = "plugin" /\ ~pluginAvailable THEN "noplugin"
    ELSE "saveMetadata"

\* redraftMessage up to its first await, or to its early return
Enter(messageIndex, pc) ==
    /\ IF pc = "saveMetadata"
       THEN /\ isRefining' = TRUE
            /\ undoShown' = undoShown \ {messageIndex}
            /\ originals' = [originals EXCEPT
                               ![messageIndex] = Str(chat[messageIndex + 1].mes)]
            /\ ops' = Append(ops, Op(messageIndex, pc, settings.connectionMode))
            /\ cleanRewrite' = [cleanRewrite EXCEPT ![messageIndex] = Null]
            /\ UNCHANGED rejected
       ELSE /\ rejected' = (rejected \/ pc = "rejected")
            /\ UNCHANGED <<isRefining, undoShown, originals, ops, cleanRewrite>>
    /\ UNCHANGED <<pluginAvailable, settings, chat, diffs, undoing>>

redraftMessage(messageIndex) == Enter(messageIndex, EntryOf(messageIndex))

AiIndices == {i \in 0..(Len(chat) - 1) : ~chat[i + 1].is_user}

findLastAiMessageIndex == IF AiIndices = {} THEN -1 ELSE Max(AiIndices)

\* a click on the button of a message; clicks less than 500 ms apart are
\* dropped by the debounce, the others all arrive
ClickMessageButton ==
    /\ \E mesId \in AiIndices : redraftMessage(mesId)
    /\ UNCHANGED <<timers, protVars, diffVars, parseVars, povVars, ruleVars, sideVars>>

\* a click on the refine button of the popout
ClickPopoutRefine ==
    /\ findLastAiMessageIndex >= 0
    /\ redraftMessage(findLastAiMessageIndex)
    /\ UNCHANGED <<timers, protVars, diffVars, parseVars, povVars, ruleVars, sideVars>>

\* the unnamed argument of /redraft: none, not a number, or a number
SlashArgs == {<<>>, <<"x">>, <<"-", "1">>, <<"0">>, <<"2">>, <<"3">>}

IsDigits(s) == s # <<>> /\ \A k \in 1..Len(s) : IsDigit(s[k])

\* rawArg && !isNaN(rawArg), for the arguments above
IsNumber(rawArg) ==
    \/ IsDigits(rawArg)
    \/ rawArg # <<>> /\ rawArg[1] = "-" /\ IsDigits(Tail(rawArg))

ParseSigned(rawArg) ==
    IF rawArg[1] = "-" THEN 0 - ParseInt(Tail(rawArg)) ELSE ParseInt(rawArg)

SlashIndex(rawArg) ==
    IF IsNumber(rawArg) THEN ParseSigned(rawArg) ELSE findLastAiMessageIndex

\* the callback of the /redraft command
SlashCommand ==
    /\ \E rawArg \in SlashArgs :
          /\ SlashIndex(rawArg) >= 0
          /\ redraftMessage(SlashIndex(rawArg))
    /\ UNCHANGED <<timers, protVars, diffVars, parseVars, povVars, ruleVars, sideVars>>

\* onCharacterMessageRendered: arm the auto-refine timer
CharacterMessageRendered ==
    /\ settings.autoRefine
    /\ ~isRefining
    /\ Len(timers) < MaxTimers
    /\ \E messageIndex \in AiIndices : timers' = Append(timers, messageIndex)
    /\ UNCHANGED <<isRefining, pluginAvailable, settings, chat, originals, diffs,
                   ops, rejected, undoShown, undoing, cleanRewrite, protVars, diffVars,
                   parseVars, povVars, ruleVars, sideVars>>

\* the callback of the timer, 100 ms later
TimerFires ==
    /\ timers # <<>>
    /\ redraftMessage(Head(timers))
    /\ timers' = Tail(timers)
    /\ UNCHANGED <<protVars, diffVars, parseVars, povVars, ruleVars, sideVars>>

\* the first saveMetadata is through: strip the message and send the request
\* through the connection mode the settings name at that moment
SaveMetadataDone(k) ==
    /\ ops[k].pc = "saveMetadata"
    /\ \E r \in {stripProtectedBlocks(chat[ops[k].idx + 1].mes)} :
          ops' = [ops EXCEPT ![k].pc = "generate", ![k].protectedBlocks = r.blocks,
                             ![k].mode = settings.connectionMode]
    /\ UNCHANGED <<isRefining, pluginAvailable, settings, chat, originals, diffs,
                   rejected, timers, undoShown, undoing, cleanRewrite, protVars,
                   diffVars, parseVars, povVars, ruleVars, sideVars>>

\* the call returns without releasing the guard
Finally_KeepGuard(k) ==
    /\ ops' = SubSeq(ops, 1, k - 1) \o SubSeq(ops, k + 1, Len(ops))
    /\ isRefining' = isRefining
    /\ rejected' = FALSE

\* catch and finally, and the call returns
Finally(k) ==
    /\ ops' = SubSeq(ops, 1, k - 1) \o SubSeq(ops, k + 1, Len(ops))
    /\ isRefining' = FALSE
    /\ rejected' = FALSE

\* the reply is parsed, the blocks are restored, the message is overwritten
WriteBack(k, p) ==
    /\ chat' = [chat EXCEPT ![ops[k].idx + 1].mes =
                   restoreProtectedBlocks(p.refined, ops[k].protectedBlocks)]
    /\ ops' = [ops EXCEPT ![k].pc = "saveChat",
                          ![k].originalText = chat[ops[k].idx + 1].mes,
                          ![k].changelog = p.changelog]
    /\ UNCHANGED <<isRefining, rejected>>

\* the collaborator answers; refineViaST and refineViaPlugin throw on a blank
\* answer and trim the others
\* refineViaST and refineViaPlugin never take a blank answer for a text
ThrowsOnBlank_Never(result) == FALSE

\* if (!result || typeof result !== 'string' || !result.trim()) throw
ThrowsOnBlank(result) == Trim(result) = <<>>

\* what redraftMessage does with the answer result
Reply(k, result) ==
    IF ThrowsOnBlank(result)
    THEN Finally(k) /\ UNCHANGED chat
    ELSE WriteBack(k, parseChangelog(Trim(result)))

GenerateReturns(k) ==
    /\ ops[k].pc = "generate"
    /\ \E result \in Replies : Reply(k, result)
    /\ UNCHANGED <<pluginAvailable, settings, originals, diffs, timers,
                   undoShown, undoing, cleanRewrite, protVars, diffVars, parseVars,
                   povVars, ruleVars, sideVars>>

\* saveChat is through: record the diff data
SaveChatDone(k) ==
    /\ ops[k].pc = "saveChat"
    /\ diffs' = [diffs EXCEPT ![ops[k].idx] =
                    [isNull |-> FALSE,
                     original |-> ops[k].originalText,
                     changelog |-> IF Falsy(ops[k].changelog) THEN Null
                                   ELSE ops[k].changelog]]
    /\ ops' = [ops EXCEPT ![k].pc = "saveDiffs"]
    /\ UNCHANGED <<isRefining, pluginAvailable, settings, chat, originals, rejected,
                   timers, undoShown, undoing, cleanRewrite, protVars, diffVars,
                   parseVars, povVars, ruleVars, sideVars>>

\* the second saveMetadata is through: show the buttons, release the guard
SaveDiffsDone(k) ==
    /\ ops[k].pc = "saveDiffs"
    /\ undoShown' = undoShown \cup {ops[k].idx}
    /\ cleanRewrite' = [cleanRewrite EXCEPT
                           ![ops[k].idx] = IF ops[k].undone THEN Null
                                           ELSE Str(ops[k].before)]
    /\ Finally(k)
    /\ UNCHANGED <<pluginAvailable, settings, chat, originals, diffs, timers,
                   undoing, protVars, diffVars, parseVars, povVars, ruleVars,
                   sideVars>>

\* an awaited call rejects: the save fails, the request fails or times out
AwaitRejects(k) ==
    /\ InFlight(ops[k])
    /\ Finally(k)
    /\ UNCHANGED <<pluginAvailable, settings, chat, originals, diffs, timers,
                   undoShown, undoing, cleanRewrite, protVars, diffVars, parseVars,
                   povVars, ruleVars, sideVars>>

\* the entry is left in the mapping
WithoutEntry_Kept(map, i) == map

\* delete map[i]
WithoutEntry(map, i) == [map EXCEPT ![i] = Null]

\* the suspended calls on message i learn that undoRedraft worked on it
MarkUndone(i) ==
    [k \in DOMAIN ops |-> IF ops[k].idx = i THEN [ops[k] EXCEPT !.undone = TRUE]
                          ELSE ops[k]]

\* undoRedraft up to its first await
undoRedraft(messageIndex) ==
    /\ ~Falsy(originals[messageIndex])
    /\ chat' = [chat EXCEPT ![messageIndex + 1].mes = originals[messageIndex].text]
    /\ originals' = WithoutEntry(originals, messageIndex)
    /\ diffs' = WithoutEntry(diffs, messageIndex)
    /\ undoing' = undoing \cup {messageIndex}
    /\ ops' = MarkUndone(messageIndex)
    /\ cleanRewrite' = [cleanRewrite EXCEPT ![messageIndex] = Null]

\* a click on the undo button of a message
UndoRedraft ==
    /\ \E messageIndex \in undoShown : undoRedraft(messageIndex)
    /\ UNCHANGED <<isRefining, pluginAvailable, settings, rejected,
                   timers, undoShown, protVars, diffVars, parseVars, povVars, ruleVars,
                   sideVars>>

\* its saves are through: the buttons of the message go
UndoSaved ==
    /\ \E messageIndex \in undoing :
          /\ undoShown' = undoShown \ {messageIndex}
          /\ undoing' = undoing \ {messageIndex}
    /\ UNCHANGED <<isRefining, pluginAvailable, settings, chat, originals, diffs,
                   ops, rejected, timers, cleanRewrite, protVars, diffVars, parseVars,
                   povVars, ruleVars, sideVars>>

\* onMessageRendered: every message with a saved original gets its undo button
MessageRendered ==
    /\ undoShown' = undoShown \cup {i \in DOMAIN originals : ~originals[i].isNull}
    /\ UNCHANGED <<isRefining, pluginAvailable, settings, chat, originals, diffs,
                   ops, rejected, timers, undoing, cleanRewrite, protVars, diffVars,
                   parseVars, povVars, ruleVars, sideVars>>

\* the handlers of the settings panel
ChangeSettings(field, value) ==
    /\ settings' = [settings EXCEPT ![field] = value]
    /\ UNCHANGED <<isRefining, pluginAvailable, chat, originals, diffs, ops, rejected,
                   timers, undoShown, undoing, cleanRewrite, protVars, diffVars,
                   parseVars, povVars, ruleVars, sideVars>>

SetConnectionMode == \E value \in {"st", "plugin"} : ChangeSettings("connectionMode", value)
SetAutoRefine == \E value \in BOOLEAN : ChangeSettings("autoRefine", value)

\* checkPluginStatus: the plugin answers or it does not
CheckPluginStatus ==
    /\ pluginAvailable' \in BOOLEAN
    /\ UNCHANGED <<isRefining, settings, chat, originals, diffs, ops, rejected, timers,
                   undoShown, undoing, cleanRewrite, protVars, diffVars, parseVars,
                   povVars, ruleVars, sideVars>>

Init ==
    /\ ProtIdle
    /\ DiffIdle
    /\ ParseIdle
    /\ RefineIdle
    /\ PovIdle
    /\ RulesIdle
    /\ SideIdle

Next ==
    \/ ClickMessageButton
    \/ ClickPopoutRefine
    \/ SlashCommand
    \/ CharacterMessageRendered
    \/ TimerFires
    \/ \E k \in DOMAIN ops : SaveMetadataDone(k)
    \/ \E k \in DOMAIN ops : GenerateReturns(k)
    \/ \E k \in DOMAIN ops : SaveChatDone(k)
    \/ \E k \in DOMAIN ops : SaveDiffsDone(k)
    \/ \E k \in DOMAIN ops : AwaitRejects(k)
    \/ UndoRedraft
    \/ UndoSaved
    \/ MessageRendered
    \/ SetConnectionMode
    \/ SetAutoRefine
    \/ CheckPluginStatus

Spec == Init /\ [][Next]_vars

\* POST /refine of the server plugin answers every request: with the text, with
\* an error status, or with 504 once the abort timer of REQUEST_TIMEOUT_MS runs
\* out. An operation that went through the plugin is therefore answered.
PluginAnswers ==
    \E k \in DOMAIN ops :
        /\ ops[k].mode = "plugin"
        /\ ops[k].pc = "generate"
        /\ (GenerateReturns(k) \/ AwaitRejects(k))

\* a save of the host settles: it rejects or it is through
SavesSettle ==
    \E k \in DOMAIN ops :
        /\ ops[k].pc \in {"saveMetadata", "saveChat", "saveDiffs"}
        /\ (AwaitRejects(k) \/ SaveMetadataDone(k) \/ SaveChatDone(k) \/ SaveDiffsDone(k))

\* The operations started from the message buttons alone, with the settings
\* panel and the plugin probe beside them.
CallNext ==
    \/ ClickMessageButton
    \/ \E k \in DOMAIN ops : SaveMetadataDone(k)
    \/ \E k \in DOMAIN ops : GenerateReturns(k)
    \/ \E k \in DOMAIN ops : SaveChatDone(k)
    \/ \E k \in DOMAIN ops : SaveDiffsDone(k)
    \/ \E k \in DOMAIN ops : AwaitRejects(k)
    \/ SetConnectionMode
    \/ CheckPluginStatus

\* The scheduling the code guarantees: the host's saves settle and the plugin
\* answers. refineViaST awaits generateRaw with no timer and no abort signal,
\* so nothing makes a call in 'st' mode return.
FairSpec == Init /\ [][CallNext]_vars /\ WF_vars(SavesSettle) /\ WF_vars(PluginAnswers)

(***************************************************************************)
(* ContentProtector: properties                                            *)
(***************************************************************************)
\* t holds a region one of the three passes would match
HasFence(t) == \E p \in 1..Len(t) : FenceMatchEnd(t, p) # 0
HasBlockElement(t) == \E p \in 1..Len(t) : BlockMatchEnd(t, p) # 0
HasBracketBlock(t) == \E p \in 1..Len(t) : BracketMatchEnd(t, p) # 0
NoProtectableMarkup(t) == ~HasFence(t) /\ ~HasBlockElement(t) /\ ~HasBracketBlock(t)

\* C1: a text with protectable regions, nested ones included, whose stripped
\* form comes back unchanged is restored to exactly the original text.
C1_RoundTripWithRegions ==
    (ppc = "restored" /\ reply = stripped /\ ~NoProtectableMarkup(text))
        => restored = text

\* C2: a text without protectable markup, even one holding a literal
\* placeholder-shaped token, strips to an empty block list and is restored
\* to itself.
C2_RoundTripPlain ==
    (ppc = "restored" /\ reply = stripped /\ NoProtectableMarkup(text))
        => (blocks = <<>> /\ restored = text)

\* 0-based indices of the blocks whose placeholder is not in the reply
MissingBlocks == {k \in 0..(Len(blocks) - 1) : ~Includes(reply, Placeholder(k))}

\* length of what the safety net appends for the missing blocks from k on
RECURSIVE AppendedLenFrom(_)
AppendedLenFrom(k) ==
    IF k >= Len(blocks) THEN 0
    ELSE (IF k \in MissingBlocks THEN 1 + Len(blocks[k + 1]) ELSE 0) + AppendedLenFrom(k + 1)

\* C3: after restoreProtectedBlocks every stored block occurs in the result,
\* and a block whose placeholder is not in the text handed in stands, after a
\* newline, in the tail of the result, the missing blocks in index order.
C3_NoBlockLost ==
    ppc = "restored" =>
        /\ \A k \in 0..(Len(blocks) - 1) : Includes(restored, blocks[k + 1])
        /\ \A k \in MissingBlocks :
              MatchAt(<<"\n">> \o blocks[k + 1], restored,
                      Len(restored) - AppendedLenFrom(k) + 1)

\* a restore where the engine had dropped the placeholder of a non-empty block
C3_Witness ==
    /\ ppc = "restored"
    /\ \E k \in MissingBlocks : blocks[k + 1] # <<>>
    /\ \E k \in 0..(Len(blocks) - 1) : k \notin MissingBlocks

\* the tag names pass 3 is to leave alone
ReservedTag(tag) ==
    \/ UpperStr(tag) \in {CHANGELOG_NAME, REFINED_NAME}
    \/ Len(tag) >= 9 /\ SubSeq(UpperStr(tag), 1, 9) = PROTECTED_NAME

\* t has bracket blocks, all of them under reserved tag names, and nothing
\* else to protect
OnlyReservedBrackets(t) ==
    /\ ~HasFence(t)
    /\ ~HasBlockElement(t)
    /\ HasBracketBlock(t)
    /\ \A p \in 1..Len(t) : BracketMatchEnd(t, p) # 0 => ReservedTag(BracketTagAt(t, p))

\* C12: pass 3 never strips a bracket block whose tag name is CHANGELOG,
\* REFINED or the PROTECTED tag of the placeholders: the block stays verbatim in
\* the stripped text and the block list gets no entry.
C12_ReservedBlocksStay ==
    (ppc = "stripped" /\ OnlyReservedBrackets(text))
        => (stripped = text /\ blocks = <<>>)

\* [PROTECTED_k] written out from its decimal digits
TokenOf(k) == PROTECTED_PREFIX \o ToDigits(k) \o <<"]">>

\* the texts s can come from when the last n blocks of blks are put back, the
\* latest first, each for one occurrence of the token of its list index
RECURSIVE Unstripped(_, _, _)
Unstripped(s, blks, n) ==
    IF n = 0 THEN {s}
    ELSE UNION { Unstripped(SubSeq(s, 1, q - 1) \o blks[n]
                                \o SubSeq(s, q + Len(TokenOf(n - 1)), Len(s)),
                            blks, n - 1) :
                 q \in {p \in 1..Len(s) : MatchAt(TokenOf(n - 1), s, p)} }

\* C23: the block list of stripProtectedBlocks has the indices 0..n-1 in the
\* order of discovery without gaps, and the k-th discovered match was replaced
\* by exactly [PROTECTED_k]: putting block n-1, then n-2, ... then 0 back for
\* its token gives the text; a match skipped as reserved takes no index.
C23_IndicesMatchTokens ==
    ppc # "input" => text \in Unstripped(stripped, blocks, Len(blocks))

\* a reserved block was skipped before a match, and a match holds the token of
\* an earlier one
C23_Witness ==
    /\ ppc = "stripped"
    /\ \/ /\ Len(blocks) = 1
          /\ MatchAtCI(OpenTag(CHANGELOG_NAME), stripped, 1)
          /\ Includes(stripped, TokenOf(0))
       \/ /\ Len(blocks) = 2
          /\ Includes(blocks[2], TokenOf(0))

(***************************************************************************)
(* DiffEngine: properties                                                  *)
(***************************************************************************)
\* the texts of the segments whose type is in types, joined in order
RECURSIVE JoinTypes(_, _, _)
JoinTypes(segs, types, k) ==
    IF k > Len(segs) THEN <<>>
    ELSE (IF segs[k].type \in types THEN segs[k].text ELSE <<>>)
             \o JoinTypes(segs, types, k + 1)

\* C4: the equal and delete segments of computeWordDiff join to the original
\* text, which is the join of its tokens, and the equal and insert segments
\* join to the refined text.
C4_DiffReproducesBothTexts ==
    dpc = "done" =>
        /\ JoinTypes(dMerged, {"equal", "delete"}, 1) = dOriginal
        /\ Concat(tokenize(dOriginal)) = dOriginal
        /\ JoinTypes(dMerged, {"equal", "insert"}, 1) = dRefined
        /\ Concat(tokenize(dRefined)) = dRefined

\* a diff with all three kinds of segment, one of them merged from two tokens
C4_Witness ==
    /\ dpc = "done"
    /\ \A ty \in {"equal", "delete", "insert"} :
          \E k \in 1..Len(dMerged) : dMerged[k].type = ty
    /\ \E k \in 1..Len(dMerged) : Len(tokenize(dMerged[k].text)) > 1

\* toks are runs of t: they join to t, none is empty, each is all white space or
\* all other characters, and neighbours are of different kinds
RunsOf(t, toks) ==
    /\ Concat(toks) = t
    /\ \A k \in 1..Len(toks) :
          /\ toks[k] # <<>>
          /\ \A c \in 1..Len(toks[k]) : IsSpace(toks[k][c]) = IsSpace(toks[k][1])
    /\ \A k \in 1..(Len(toks) - 1) : IsSpace(toks[k][1]) # IsSpace(toks[k + 1][1])
    /\ (t = <<>> => toks = <<>>)

\* C24: the tokens of a text join to the text, none is empty, each is a run of
\* white space or a run of other characters, the runs are maximal, and the
\* empty text has no tokens.
C24_TokensAreMaximalRuns ==
    dpc = "done" =>
        /\ RunsOf(dOriginal, tokenize(dOriginal))
        /\ RunsOf(dRefined, tokenize(dRefined))

\* one text with a run of two white-space characters between words, the other
\* empty
C24_Witness ==
    /\ dpc = "done"
    /\ Len(tokenize(dOriginal)) = 2
    /\ \E k \in 1..2 : Len(tokenize(dOriginal)[k]) = 2 /\ IsSpace(tokenize(dOriginal)[k][1])
    /\ dRefined = <<>>

\* the step the rule of the claim asks for at a cell where the tokens differ
RuleStep(a, b, i, j) ==
    IF lcsTable(a, b, i, j - 1) >= lcsTable(a, b, i - 1, j)
    THEN Seg("insert", b[j])
    ELSE Seg("delete", a[i])

\* the script pushed by the backtrace, walked from cell (i, j) at its k-th
\* step: wherever both indices are positive and the tokens differ, the step is
\* the one of the rule; the walk ends at the origin
RECURSIVE FollowsRule(_, _, _, _, _, _)
FollowsRule(a, b, script, k, i, j) ==
    IF k > Len(script) THEN i = 0 /\ j = 0
    ELSE /\ (i > 0 /\ j > 0 /\ a[i] # b[j]) => script[k] = RuleStep(a, b, i, j)
         /\ CASE script[k].type = "equal" ->
                     i > 0 /\ j > 0 /\ FollowsRule(a, b, script, k + 1, i - 1, j - 1)
              [] script[k].type = "insert" ->
                     j > 0 /\ FollowsRule(a, b, script, k + 1, i, j - 1)
              [] script[k].type = "delete" ->
                     i > 0 /\ FollowsRule(a, b, script, k + 1, i - 1, j)

\* a and b are of one length and differ in the token at position k alone
ReplacedAt(a, b, k) ==
    /\ Len(a) = Len(b)
    /\ k \in 1..Len(a)
    /\ \A n \in 1..Len(a) : (a[n] = b[n]) <=> (n # k)

\* the delete of x comes right before the insert of y in segs
DeleteThenInsert(segs, x, y) ==
    \E n \in 1..(Len(segs) - 1) :
        segs[n] = Seg("delete", x) /\ segs[n + 1] = Seg("insert", y)

TieBreak(a, b, segs) ==
    /\ FollowsRule(a, b, Backtrace(a, b, Len(a), Len(b), <<>>), 1, Len(a), Len(b))
    /\ \A k \in 1..Len(a) :
          ReplacedAt(a, b, k) => DeleteThenInsert(segs, a[k], b[k])

\* C25: at every cell of the backtrace with both indices positive and differing
\* tokens the step is insert when table(i, j-1) >= table(i-1, j) and delete
\* otherwise; where one token is replaced by another, the output lists the
\* delete right before the insert.
C25_InsertPreferredOnTie ==
    dpc = "done" => TieBreak(tokenize(dOriginal), tokenize(dRefined), dMerged)

\* the last of three tokens is replaced by another
C25_Witness ==
    /\ dpc = "done"
    /\ Len(tokenize(dOriginal)) = 3
    /\ ReplacedAt(tokenize(dOriginal), tokenize(dRefined), 3)

\* the length of a longest common subsequence of a[1..i] and b[1..j]
RECURSIVE LcsLength(_, _, _, _)
LcsLength(a, b, i, j) ==
    IF i = 0 \/ j = 0 THEN 0
    ELSE IF a[i] = b[j] THEN LcsLength(a, b, i - 1, j - 1) + 1
    ELSE MaxOf(LcsLength(a, b, i - 1, j), LcsLength(a, b, i, j - 1))

EqualSteps(script) == Cardinality({k \in 1..Len(script) : script[k].type = "equal"})

\* for the short texts of SpecDiff the equal steps of the script are as many as
\* the tokens of a longest common subsequence
ShortDiffsAreMinimal ==
    dpc = "done" =>
        EqualSteps(Backtrace(tokenize(dOriginal), tokenize(dRefined),
                             Len(tokenize(dOriginal)), Len(tokenize(dRefined)), <<>>))
            = LcsLength(tokenize(dOriginal), tokenize(dRefined),
                        Len(tokenize(dOriginal)), Len(tokenize(dRefined)))

\* C26: the equal tokens of computeWordDiff(a, b) are as many as the tokens of
\* a longest common subsequence of a and b, for all token sequences: the
\* backtrace reads the lengths from the table, so every cell the loop of lcsTable
\* assigns holds the length for its two prefixes, one more than the diagonal
\* cell where the tokens are the same and the larger neighbour where not.
C26_TableHoldsLcsLength ==
    tpc = "done" =>
        cellOut = (IF cellSame THEN cellDiag + 1 ELSE MaxOf(cellUp, cellLeft))

IsCatExample == dpc = "done" /\ dOriginal = CAT_SAT /\ dRefined = CAT_SAT_QUIETLY

\* C17 as stated: the diff of 'The cat sat.' and 'The cat sat quietly.' has no
\* delete segment; it is an equal segment covering the whole original followed
\* by one insert segment, and the inserted-word count is 1.
C17_ExampleOnlyInserts ==
    IsCatExample =>
        /\ \A k \in 1..Len(dMerged) : dMerged[k].type # "delete"
        /\ Len(dMerged) = 2
        /\ dMerged[1] = Seg("equal", CAT_SAT)
        /\ dMerged[2].type = "insert"
        /\ countWords(dMerged, "insert") = 1

\* C17 amended: the tokens 'sat.' and 'sat' differ, so the diff is the equal
\* segment 'The cat ', the delete segment 'sat.' and the insert segment
\* 'sat quietly.'; the inserted-word count is 2 and the deleted-word count 1.
C17_ExampleReplacesLastWord ==
    IsCatExample =>
        /\ dMerged = << Seg("equal", SubSeq(CAT_SAT, 1, 8)),
                        Seg("delete", SubSeq(CAT_SAT, 9, 12)),
                        Seg("insert", SubSeq(CAT_SAT_QUIETLY, 9, 20)) >>
        /\ countWords(dMerged, "insert") = 2
        /\ countWords(dMerged, "delete") = 1

C17_Witness == IsCatExample /\ Len(dMerged) = 3

(***************************************************************************)
(* ResponseParser: properties                                              *)
(***************************************************************************)
HasRefinedPair == PairClose(raw, REFINED_NAME) # 0
HasChangelogPair == PairClose(raw, CHANGELOG_NAME) # 0
HasChangelogOpen == IndexOfCI(OpenTag(CHANGELOG_NAME), raw, 1) # 0

\* the trimmed inner content of the first closed pair of a tag
InnerOf(name) == Trim(PairGroup(raw, name))

\* the trimmed text behind the closing tag of the first closed [CHANGELOG] pair
AfterChangelog ==
    Trim(SubSeq(raw, IndexOfCI(CloseTag(CHANGELOG_NAME), raw,
                               IndexOfCI(OpenTag(CHANGELOG_NAME), raw, 1) + 11) + 12,
                Len(raw)))

\* the text behind the first opening [CHANGELOG] tag, as it stands and with
\* its leading white space skipped
AfterOpen == SubSeq(raw, IndexOfCI(OpenTag(CHANGELOG_NAME), raw, 1) + 11, Len(raw))
AfterOpenSkipped == SkipSpace(AfterOpen, 1)

Before(t, pos) == Trim(SubSeq(t, 1, pos - 1))
From(t, pos) == Trim(SubSeq(t, pos, Len(t)))

\* t with the reserved tag markers removed, trimmed
Cleaned(t) == Trim(StripMarkers(t, 1, <<>>))

\* t cleaned, the whole trimmed reply cleaned when t is empty
CleanedOrWhole(t) == Cleaned(IF t = <<>> THEN Trim(raw) ELSE t)

\* C6: for every reply that is not blank the refined text is not empty.
C6_RefinedNeverEmpty ==
    (rpc = "done" /\ Trim(raw) # <<>>) => parsed.refined # <<>>

\* C7 as claimed: with a closed [REFINED] pair in the reply, refined is the
\* trimmed inner content of the first pair, and changelog the trimmed inner
\* content of the first closed [CHANGELOG] pair, null without one.
C7_RefinedIsInnerContent ==
    (rpc = "done" /\ HasRefinedPair) =>
        /\ parsed.refined = InnerOf(REFINED_NAME)
        /\ parsed.changelog =
              IF HasChangelogPair THEN Str(InnerOf(CHANGELOG_NAME)) ELSE Null

\* C7 amended: with a closed [REFINED] pair in the reply, changelog is the
\* trimmed inner content of the first closed [CHANGELOG] pair, null without
\* one; refined is the trimmed inner content of the first [REFINED] pair with
\* the reserved tag markers in it removed and trimmed again, and when that
\* inner content is blank refined is the whole trimmed reply so cleaned.
C7_RefinedIsCleanedInnerContent ==
    (rpc = "done" /\ HasRefinedPair) =>
        /\ parsed.refined = CleanedOrWhole(InnerOf(REFINED_NAME))
        /\ parsed.changelog =
              IF HasChangelogPair THEN Str(InnerOf(CHANGELOG_NAME)) ELSE Null

\* a reply with text outside a [REFINED] pair that holds text and a marker,
\* and with a closed [CHANGELOG] pair
C7_Witness ==
    /\ rpc = "done"
    /\ HasRefinedPair
    /\ HasChangelogPair
    /\ InnerOf(REFINED_NAME) # <<>>
    /\ parsed.refined # InnerOf(REFINED_NAME)
    /\ Len(parsed.refined) < Len(Cleaned(raw))

\* C8 as claimed: without a closed [REFINED] pair and with a closed
\* [CHANGELOG] pair, changelog is the trimmed inner content of the pair and
\* refined the trimmed text behind its closing tag, even when that is empty.
C8_RefinedIsTextAfterChangelog ==
    (rpc = "done" /\ ~HasRefinedPair /\ HasChangelogPair) =>
        /\ parsed.changelog = Str(InnerOf(CHANGELOG_NAME))
        /\ parsed.refined = AfterChangelog

\* C8 amended: without a closed [REFINED] pair and with a closed [CHANGELOG]
\* pair, changelog is the trimmed inner content of the pair; refined is the
\* trimmed text behind the closing tag with the reserved tag markers removed
\* and trimmed again, and when only white space follows the closing tag
\* refined is the whole trimmed reply so cleaned.
C8_RefinedIsCleanedTextAfterChangelog ==
    (rpc = "done" /\ ~HasRefinedPair /\ HasChangelogPair) =>
        /\ parsed.changelog = Str(InnerOf(CHANGELOG_NAME))
        /\ parsed.refined = CleanedOrWhole(AfterChangelog)

\* a closed [CHANGELOG] pair followed by an unclosed [REFINED] tag and text
C8_Witness ==
    /\ rpc = "done"
    /\ ~HasRefinedPair
    /\ HasChangelogPair
    /\ InnerOf(CHANGELOG_NAME) # <<>>
    /\ parsed.refined # <<>>
    /\ parsed.refined # AfterChangelog
    /\ ~parsed.fallback

\* C9 as claimed: with an unclosed [CHANGELOG] tag and no closed [REFINED]
\* pair, the text behind the opening tag is split at its first blank line
\* into the changelog (before, trimmed) and refined (after, trimmed).
C9_SplitAtFirstBlankLine ==
    (rpc = "done" /\ ~HasRefinedPair /\ ~HasChangelogPair /\ HasChangelogOpen
        /\ BlankLineAt(AfterOpen) # 0) =>
        /\ parsed.changelog = Str(Before(AfterOpen, BlankLineAt(AfterOpen)))
        /\ parsed.refined = From(AfterOpen, BlankLineAt(AfterOpen))

\* C9 amended: with an unclosed [CHANGELOG] tag and no closed [REFINED] pair,
\* the white space behind the opening tag is skipped and the rest is split at
\* its first blank line: changelog is the trimmed text before it and refined
\* the trimmed text after it with the reserved tag markers removed and
\* trimmed again, the whole trimmed reply so cleaned when nothing but white
\* space follows the blank line; when the rest has no blank line changelog is
\* null and refined is the whole trimmed reply so cleaned.
C9_SplitAfterSkippedSpace ==
    (rpc = "done" /\ ~HasRefinedPair /\ ~HasChangelogPair /\ HasChangelogOpen) =>
        IF BlankLineAt(AfterOpenSkipped) # 0
        THEN /\ parsed.changelog =
                   Str(Before(AfterOpenSkipped, BlankLineAt(AfterOpenSkipped)))
             /\ parsed.refined =
                   CleanedOrWhole(From(AfterOpenSkipped, BlankLineAt(AfterOpenSkipped)))
        ELSE /\ parsed.changelog = Null
             /\ parsed.refined = Cleaned(Trim(raw))

\* an unclosed [CHANGELOG] tag, a changelog line, a blank line and the text
C9_Witness ==
    /\ rpc = "done"
    /\ ~HasRefinedPair /\ ~HasChangelogPair /\ HasChangelogOpen
    /\ BlankLineAt(AfterOpenSkipped) # 0
    /\ ~parsed.changelog.isNull /\ parsed.changelog.text # <<>>
    /\ parsed.refined # <<>>
    /\ ~parsed.fallback

\* C10: when refined is taken from the entire raw reply, changelog is null.
C10_FallbackHasNullChangelog ==
    (rpc = "done" /\ parsed.fallback) => parsed.changelog.isNull


\* t holds one of the four tag markers, in any letter case
HasMarker(t) ==
    \/ IndexOfCI(OpenTag(REFINED_NAME), t, 1) # 0
    \/ IndexOfCI(CloseTag(REFINED_NAME), t, 1) # 0
    \/ IndexOfCI(OpenTag(CHANGELOG_NAME), t, 1) # 0
    \/ IndexOfCI(CloseTag(CHANGELOG_NAME), t, 1) # 0

\* C11: whichever branch fired, the refined text holds no [REFINED],
\* [/REFINED], [CHANGELOG] or [/CHANGELOG] in any letter case, also where the
\* removal of one marker joins the characters around it into a new one.
C11_NoMarkerInRefined == rpc = "done" => ~HasMarker(parsed.refined)


(***************************************************************************)
(* PovDetector: properties                                                 *)
(***************************************************************************)
FirstCount == CountWords(povText, FirstPerson)
SecondCount == CountWords(povText, SecondPerson)
ThirdCount == CountWords(povText, ThirdPerson)
TotalCount == FirstCount + SecondCount + ThirdCount

\* first and second person each hold more than a fifth of the pronouns
BothSignificant == 5 * FirstCount > TotalCount /\ 5 * SecondCount > TotalCount

\* the class whose count is strictly greater than both others, if any
StrictPlurality ==
    IF FirstCount > SecondCount /\ FirstCount > ThirdCount THEN "1st"
    ELSE IF SecondCount > FirstCount /\ SecondCount > ThirdCount THEN "2nd"
    ELSE IF ThirdCount > FirstCount /\ ThirdCount > SecondCount THEN "3rd"
    ELSE NoPov

\* C15: with fewer than 3 pronouns detectPov returns undetermined; otherwise
\* it returns 1.5 exactly when first and second person each exceed 20% of the
\* total, even where third person is the largest count; otherwise the class
\* with the strictly greatest count, undetermined when there is none.
C15_PovDecision ==
    vpc = "done" =>
        /\ TotalCount < 3 => pov = NoPov
        /\ TotalCount >= 3 => (pov = "1.5" <=> BothSignificant)
        /\ (TotalCount >= 3 /\ ~BothSignificant) => pov = StrictPlurality

\* first and second person together with third person the largest count
C15_Witness ==
    /\ vpc = "done"
    /\ pov = "1.5"
    /\ ThirdCount > FirstCount
    /\ ThirdCount > SecondCount

\* C16 as claimed: detectPov of "I walked. I smiled." is first person.
C16_ExampleIsFirst == (vpc = "done" /\ povText = POV_EXAMPLE) => pov = "1st"

\* C16: detectPov of "I walked. I smiled.", which holds two pronouns, is
\* undetermined.
C16_ExampleIsUndetermined ==
    (vpc = "done" /\ povText = POV_EXAMPLE) => (TotalCount = 2 /\ pov = NoPov)

C16_Witness == vpc = "done" /\ povText = POV_EXAMPLE /\ FirstCount = 2

(***************************************************************************)
(* RuleCompiler: properties                                                *)
(***************************************************************************)
\* the built-in rules that are switched on, by their position
EnabledBuiltIns == {k \in 1..Len(BUILTIN_KEYS) : ruleSettings.builtInRules[BUILTIN_KEYS[k]]}

\* the custom rules that are enabled and not blank, by their position
ActiveCustoms ==
    {i \in 1..Len(ruleSettings.customRules) :
        /\ ruleSettings.customRules[i].enabled
        /\ \E c \in 1..Len(ruleSettings.customRules[i].text) :
              ~IsSpace(ruleSettings.customRules[i].text[c])}

RuleCount == Cardinality(EnabledBuiltIns) + Cardinality(ActiveCustoms)

\* the n-th smallest member of a set of numbers
NthOf(S, n) == CHOOSE x \in S : Cardinality({y \in S : y < x}) = n - 1

\* the k-th active rule: built-ins first, custom rules after them
RuleAt(k) ==
    IF k <= Cardinality(EnabledBuiltIns)
    THEN BUILTIN_PROMPTS[BUILTIN_KEYS[NthOf(EnabledBuiltIns, k)]]
    ELSE Trim(ruleSettings.customRules[
                  NthOf(ActiveCustoms, k - Cardinality(EnabledBuiltIns))].text)

\* the lines of a text, the line feeds between them dropped
RECURSIVE LinesFrom(_, _)
LinesFrom(t, from) ==
    LET nl == MinOr0({p \in from..Len(t) : t[p] = "\n"})
    IN IF nl = 0 THEN <<SubSeq(t, from, Len(t))>>
       ELSE <<SubSeq(t, from, nl - 1)>> \o LinesFrom(t, nl + 1)

NumberPrefix(k) == ToDigits(k) \o <<".", " ">>

\* C13: compileRules returns exactly N lines, N the number of enabled built-in
\* rules plus that of enabled non-blank custom rules; line k is "k. " followed
\* by the k-th rule, built-ins in declaration order first, custom rules
\* trimmed and in stored order after them.
C13_OneNumberedLinePerRule ==
    (cpc = "done" /\ RuleCount > 0) =>
        /\ Len(LinesFrom(compiled, 1)) = RuleCount
        /\ \A k \in 1..RuleCount :
              LinesFrom(compiled, 1)[k] = NumberPrefix(k) \o RuleAt(k)

\* the single line of the fallback
FallbackLine == NumberPrefix(1) \o FALLBACK_RULE

\* C14 as claimed: without an active rule compileRules returns the fallback
\* line alone, and in every other case the fallback instruction is not in the
\* output.
C14_FallbackOnlyWithoutRules ==
    cpc = "done" =>
        /\ RuleCount = 0 => compiled = FallbackLine
        /\ RuleCount > 0 => ~Includes(compiled, FALLBACK_RULE)

\* the active rules, numbered and joined, written out rule by rule
RECURSIVE ExpectedFrom(_)
ExpectedFrom(k) ==
    IF k > RuleCount THEN <<>>
    ELSE (IF k > 1 THEN <<"\n">> ELSE <<>>) \o NumberPrefix(k) \o RuleAt(k)
         \o ExpectedFrom(k + 1)

\* C14: without an active rule compileRules returns the fallback line alone;
\* in every other case it returns the active rules only, numbered and joined,
\* so the fallback instruction is in the output only where an active rule
\* carries it.
C14_FallbackNotAdded ==
    cpc = "done" =>
        /\ RuleCount = 0 => compiled = FallbackLine
        /\ RuleCount > 0 => compiled = ExpectedFrom(1)
        /\ (RuleCount > 0 /\ Includes(compiled, FALLBACK_RULE))
              => \E k \in 1..RuleCount : Includes(RuleAt(k), FALLBACK_RULE)

\* only blank and disabled custom rules, and the fallback line came out
C14_Witness ==
    /\ cpc = "done"
    /\ RuleCount = 0
    /\ \E i \in 1..Len(ruleSettings.customRules) :
          /\ ruleSettings.customRules[i].enabled
          /\ ruleSettings.customRules[i].text = <<" ">>
    /\ compiled = FallbackLine

(***************************************************************************)
(* redraftMessage: properties                                              *)
(***************************************************************************)
\* a step of one of the four triggers of redraftMessage
Trigger == ClickMessageButton \/ ClickPopoutRefine \/ SlashCommand \/ TimerFires

\* a request goes out to the generation collaborator in this step
CallMade ==
    \E k \in DOMAIN ops' :
        /\ ops'[k].pc = "generate"
        /\ \A j \in DOMAIN ops : ops[j].pc = "generate" => ops'[k] # ops[j]

\* a trigger that arrives while a call is outstanding makes no request, leaves
\* the messages, the undo and the diff state alone, and leaves nothing behind
\* that would run later: no suspended call and no timer
TurnedAway ==
    (ops # <<>> /\ Trigger) =>
        /\ ~CallMade
        /\ UNCHANGED <<chat, originals, diffs, undoShown, ops, isRefining>>
        /\ Len(timers') <= Len(timers)
        /\ rejected'

\* C5: under every interleaving of the triggers at most one redraftMessage call
\* is between setting the guard and its finally block; a call that arrives while
\* one is outstanding returns at once, without a request to the generation
\* collaborator and without a change to message text, undo state or diff
\* state, and it is not queued.
C5_AtMostOneInFlight ==
    /\ [](Len(ops) <= 1 /\ (isRefining <=> ops # <<>>))
    /\ [][TurnedAway]_vars

\* a call was turned away while another is suspended at the collaborator
C5_Witness ==
    /\ rejected
    /\ \E k \in DOMAIN ops : ops[k].pc = "generate"

\* the generation call of the suspended call k fails: it rejects (an error, a
\* non-success status of the plugin) or it answers with blank text
CollaboratorFails(k) ==
    /\ ops[k].pc = "generate"
    /\ \/ AwaitRejects(k)
       \/ \E result \in Replies : Trim(result) = <<>> /\ Reply(k, result)

\* C19: when the generation call fails, redraftMessage takes its catch path and
\* ends (the call is gone, the guard is released), and the text of the message
\* is then the text it had when the call began.
C19_FailureKeepsText ==
    [][\A k \in DOMAIN ops :
          CollaboratorFails(k) =>
              /\ chat'[ops[k].idx + 1].mes = ops[k].before
              /\ ~isRefining'
              /\ Len(ops') = Len(ops) - 1]_vars

\* a call on the message with the code fence has failed and returned: the
\* original saved at line 514 is there, no diff entry was written, no call is
\* suspended, and the message has its text
C19_Witness ==
    /\ ops = <<>>
    /\ ~isRefining
    /\ ~originals[2].isNull
    /\ diffs[2].isNull
    /\ chat[3].mes = InitialChat[3].mes

Generating(mode) ==
    \E k \in DOMAIN ops : ops[k].pc = "generate" /\ ops[k].mode = mode

\* C18: in both connection modes a rewrite operation whose generation call is
\* out eventually ends and releases the re-entrancy guard, whether or not the
\* collaborator ever replies.
C18_GenerationCallEnds ==
    \A mode \in {"st", "plugin"} : Generating(mode) ~> ~isRefining


(***************************************************************************)
(* Server plugin: properties                                               *)
(***************************************************************************)
\* a non-empty string
NonEmptyString(v) == v.t = "string" /\ v.s # <<>>

\* messages is a non-empty array whose every element has a non-empty string
\* role and content
WellFormedMessages(m) ==
    /\ m.t = "array"
    /\ m.items # <<>>
    /\ \A n \in 1..Len(m.items) :
          /\ m.items[n].t = "object"
          /\ NonEmptyString(m.items[n].role)
          /\ NonEmptyString(m.items[n].content)

\* a stored configuration with apiKey and apiUrl exists
Configured(file) ==
    file.exists /\ NonEmptyString(file.apiKey) /\ NonEmptyString(file.apiUrl)

\* C21: POST /refine sends its upstream request only for a body within the
\* size limit with well-formed messages and a stored configuration; otherwise
\* it answers 413, 400 or 503, checked in that order, and sends nothing.
C21_RefineChecksInOrder ==
    qpc = "done" =>
        rqOutcome =
            (IF rqBody.length > MAX_BODY_SIZE_BYTES THEN Answer(413)
             ELSE IF ~WellFormedMessages(rqBody.messages) THEN Answer(400)
             ELSE IF ~Configured(rqFile) THEN Answer(503)
             ELSE UpstreamRequest)

\* the part of C21 about the upstream request alone
NoRequestUnlessAllHold ==
    (qpc = "done" /\ rqOutcome.upstream) =>
        /\ rqBody.length <= MAX_BODY_SIZE_BYTES
        /\ WellFormedMessages(rqBody.messages)
        /\ Configured(rqFile)

\* C22: when the upstream service answers with a non-success status, the error
\* text of the 502 response does not hold the configured API key, whatever the
\* error body and whatever the characters of the key (here with the stored
\* configuration not replaced while the request was in flight).
C22_ErrorTextHidesKey ==
    (answer.status = 502 /\ answer.sentKey = answer.configuredKey) =>
        ~Includes(answer.error, answer.configuredKey)

\* a key none of whose characters appears in the replacement text
PlainKey(key) == \A n \in 1..Len(key) : \A m \in 1..Len(REDACTED) : key[n] # REDACTED[m]

\* C30: with POST /config and POST /refine interleaved, the error text of a 502
\* response never holds the key that the request sent upstream, even when
\* the stored configuration was replaced while the request was in flight.
C30_ErrorTextHidesSentKey ==
    (answer.status = 502 /\ PlainKey(answer.sentKey)) =>
        ~Includes(answer.error, answer.sentKey)

\* without a replacement in flight a plain key never shows in the error text
PlainKeyHiddenWhenNotReplaced ==
    (answer.status = 502 /\ PlainKey(answer.sentKey)
        /\ answer.sentKey = answer.configuredKey) =>
        ~Includes(answer.error, answer.sentKey)

(***************************************************************************)
(* redraftMessage: the guard and the undo entry across attempts            *)
(***************************************************************************)
\* an invocation that the guard would let through
Accepted(messageIndex) == EntryOf(messageIndex) # "rejected"

\* C27: isRefining is true only while a call is between setting the guard and
\* its finally block; however a call ends, once no call is suspended the guard
\* is down, and the next invocation is not turned away by it.
C27_GuardReleasedOnEveryExit ==
    /\ [](ops = <<>> => ~isRefining)
    /\ [](isRefining => \E k \in DOMAIN ops : InFlight(ops[k]))
    /\ [][\A i \in Indices : (ops = <<>> /\ redraftMessage(i)) => ~rejected']_vars

\* a rewrite went through and has returned (its diff entry is there), and the
\* next invocation was accepted: it set the guard and waits at its first await
C27_Witness ==
    \E k \in DOMAIN ops :
        /\ ops[k].pc = "saveMetadata"
        /\ ~diffs[ops[k].idx].isNull
        /\ isRefining

\* C28: when an attempt on message i fails after the guard, the undo entry of
\* i is what it was before the attempt; so, with the diff entry of an earlier
\* rewrite of i still there, the undo entry still holds the text which that
\* rewrite replaced.
C28_FailureKeepsUndoEntry ==
    [][\A k \in DOMAIN ops :
          (CollaboratorFails(k) /\ ~diffs[ops[k].idx].isNull /\ ~ops[k].undone) =>
              originals'[ops[k].idx] = Str(diffs[ops[k].idx].original)]_vars

\* the diff entry of a message is left alone by a failed attempt
FailureKeepsDiffEntry ==
    [][\A k \in DOMAIN ops :
          CollaboratorFails(k) => diffs'[ops[k].idx] = diffs[ops[k].idx]]_vars

\* C29: when a rewrite of message i goes through, the undo mapping then holds
\* for i the text that the rewrite replaced, whatever undoRedraft(i) did while
\* the rewrite was waiting for the collaborator (the message still holds what
\* the rewrite wrote, so no undo came after the write).
C29_SuccessLeavesUndoEntry ==
    [][\A k \in DOMAIN ops :
          (SaveDiffsDone(k) /\ chat[ops[k].idx + 1].mes # ops[k].originalText) =>
              originals'[ops[k].idx] = Str(ops[k].originalText)]_vars

\* without an undoRedraft on the message during the rewrite the entry is there
SuccessLeavesUndoEntryIfNotUndone ==
    [][\A k \in DOMAIN ops :
          (SaveDiffsDone(k) /\ ~ops[k].undone) =>
              originals'[ops[k].idx] = Str(ops[k].originalText)]_vars
====
